---- MODULE Spec2Model ----
(***************************************************************************)
(* Partition pruning of pg_pathman (pg_pathman.c): the RANGE selector      *)
(* select_range_partitions(), the expression walker walk_expr_tree() with  *)
(* its handlers, and the residual-expression rebuilder                     *)
(* wrapper_make_expression().                                              *)
(***************************************************************************)
EXTENDS Integers, Sequences, FiniteSets, TLC

VARIABLES
    ranges,     \* 'ranges' array handed to select_range_partitions()
    sel,        \* last direct call of select_range_partitions(): input + result
    prel,       \* PartRelationInfo of the walked relation
    econtext,   \* WalkerContext.econtext is available (TRUE) or NULL (FALSE)
    expr,       \* predicate handed to walk_expr_tree()
    wrap,       \* WrapperNode tree returned by walk_expr_tree()
    rebuilt,    \* last call of wrapper_make_expression(): input + result
    algebra,    \* rangesets combined by irange_list_union/_intersection + results
    pathman_config_relid,           \* cached Oid of relation PATHMAN_CONFIG
    pathman_config_params_relid,    \* cached Oid of relation PATHMAN_CONFIG_PARAMS
    relid       \* last call of a get_pathman_config*_relid(): input + result

\* the cached relation Oids and the last call that read them
config_vars == <<pathman_config_relid, pathman_config_params_relid, relid>>

vars == <<ranges, sel, prel, econtext, expr, wrap, rebuilt, algebra, config_vars>>

(***************************************************************************)
(* Bounds of the model                                                     *)
(***************************************************************************)
MaxBound == 6       \* partition bounds and values are drawn from 0..MaxBound
MaxParts == 3       \* at most MaxParts partitions

Values == 0 .. MaxBound

(***************************************************************************)
(* Btree strategy numbers, Bound and its comparator                        *)
(***************************************************************************)
BTLessStrategyNumber         == 1
BTLessEqualStrategyNumber    == 2
BTEqualStrategyNumber        == 3
BTGreaterEqualStrategyNumber == 4
BTGreaterStrategyNumber      == 5

BTStrategies == BTLessStrategyNumber .. BTGreaterStrategyNumber

MINUS_INFINITY == -1
FINITE         == 0
PLUS_INFINITY  == 1

MakeBound(value) == [value |-> value, is_infinite |-> FINITE]

MakeBoundInf(infinity_type) == [value |-> 0, is_infinite |-> infinity_type]

\* three-way comparison procedure of the key type (btint4cmp)
cmp_func(a, b) == IF a < b THEN -1 ELSE IF a > b THEN 1 ELSE 0

cmp_bounds(b1, b2) ==
    IF b1.is_infinite = MINUS_INFINITY \/ b2.is_infinite = PLUS_INFINITY THEN -1
    ELSE IF b2.is_infinite = MINUS_INFINITY \/ b1.is_infinite = PLUS_INFINITY THEN 1
    ELSE cmp_func(b1.value, b2.value)

(***************************************************************************)
(* IndexRange and rangesets (rangeset.h)                                   *)
(***************************************************************************)
IR_COMPLETE == FALSE
IR_LOSSY    == TRUE

NIL == <<>>

make_irange(lower, upper, lossy) == [lower |-> lower, upper |-> upper, lossy |-> lossy]

list_make1_irange(ir) == <<ir>>

lcons_irange(ir, list) == <<ir>> \o list

lappend_irange(list, ir) == Append(list, ir)

\* membership lookup with tag
irange_list_find(rangeset, index) ==
    LET hits == {j \in 1 .. Len(rangeset) :
                    rangeset[j].lower <= index /\ index <= rangeset[j].upper}
    IN  IF hits = {} THEN [found |-> FALSE, lossy |-> FALSE]
        ELSE [found |-> TRUE, lossy |-> rangeset[CHOOSE j \in hits : TRUE].lossy]

RECURSIVE irange_list_length(_)
irange_list_length(rangeset) ==
    IF rangeset = NIL THEN 0
    ELSE (Head(rangeset).upper - Head(rangeset).lower + 1)
            + irange_list_length(Tail(rangeset))

\* the rangeset that covers exactly the indexes of 'covered' (a set of
\* integers), those of 'lossy' tagged IR_LOSSY: sorted, adjacent ranges of
\* one tag merged
RECURSIVE irange_list_build(_, _, _, _)
irange_list_build(covered, lossy, index, last) ==
    IF index > last THEN NIL
    ELSE IF index \notin covered THEN irange_list_build(covered, lossy, index + 1, last)
    ELSE LET tag   == index \in lossy
             stops == {j \in index .. last : j \notin covered \/ ((j \in lossy) # tag)}
             upper == IF stops = {} THEN last
                      ELSE (CHOOSE j \in stops : \A m \in stops : j <= m) - 1
         IN  <<make_irange(index, upper, tag)>>
                \o irange_list_build(covered, lossy, upper + 1, last)

irange_list_indexes(rangeset) ==
    UNION {rangeset[j].lower .. rangeset[j].upper : j \in 1 .. Len(rangeset)}

irange_list_lossy(rangeset) ==
    UNION {IF rangeset[j].lossy THEN rangeset[j].lower .. rangeset[j].upper ELSE {} :
            j \in 1 .. Len(rangeset)}

SetMax(S) == IF S = {} THEN -1 ELSE CHOOSE x \in S : \A y \in S : y <= x

\* union: an index is covered when either list covers it, and is complete
\* when either list has it complete
irange_list_union_LeftTag(a, b) ==
    LET covered  == irange_list_indexes(a) \cup irange_list_indexes(b)
        complete == (irange_list_indexes(a) \ irange_list_lossy(a))
                        \cup ((irange_list_indexes(b) \ irange_list_lossy(b))
                                \ irange_list_indexes(a))
    IN  irange_list_build(covered, covered \ complete, 0, SetMax(covered))

irange_list_union(a, b) ==
    LET covered  == irange_list_indexes(a) \cup irange_list_indexes(b)
        complete == (irange_list_indexes(a) \ irange_list_lossy(a))
                        \cup (irange_list_indexes(b) \ irange_list_lossy(b))
    IN  irange_list_build(covered, covered \ complete, 0, SetMax(covered))

\* intersection: an index is covered when both lists cover it, and is lossy
\* unless both lists have it complete
irange_list_intersection(a, b) ==
    LET covered == irange_list_indexes(a) \cap irange_list_indexes(b)
        lossy   == covered \cap (irange_list_lossy(a) \cup irange_list_lossy(b))
    IN  irange_list_build(covered, lossy, 0, SetMax(covered))

(***************************************************************************)
(* WrapperNode                                                             *)
(***************************************************************************)
\* selectivities are exact rationals <<num, den>>, den >= 0; den = 0 stands
\* for the non-finite doubles: <<0,0>> is NaN, <<1,0>> +Inf, <<-1,0>> -Inf
RECURSIVE Gcd(_, _)
Gcd(a, b) == IF b = 0 THEN a ELSE Gcd(b, a % b)

Abs(a) == IF a < 0 THEN -a ELSE a

Sign(a) == IF a < 0 THEN -1 ELSE IF a > 0 THEN 1 ELSE 0

Rat(num, den) ==
    IF den = 0 THEN <<Sign(num), 0>>
    ELSE LET g == Gcd(Abs(num), Abs(den))
             s == Sign(den)
         IN  <<(s * num) \div g, (s * den) \div g>>

\* a null pointer to a Node
NULL == [tag |-> "NULL"]

\* WrapperNode right after palloc0(): every field zero; 'elog' records an
\* ERROR raised while the node was being filled in
EmptyWrapper ==
    [orig |-> NULL, args |-> NIL, rangeset |-> NIL, paramsel |-> Rat(0, 1),
     found_gap |-> FALSE, elog |-> ""]

(***************************************************************************)
(* RANGE partition pruning: select_range_partitions()                      *)
(***************************************************************************)
\* integer division of C (truncates toward zero)
CDiv(a, b) == IF a >= 0 THEN a \div b ELSE -((-a) \div b)

CornerCase_FullAtMin(cmp_min, cmp_max, strategy) ==
    IF \/ (cmp_min <= 0 /\ strategy = BTLessStrategyNumber)
       \/ (cmp_min < 0 /\ (strategy = BTLessEqualStrategyNumber \/
                           strategy = BTEqualStrategyNumber))
    THEN "empty"
    ELSE IF cmp_max >= 0 /\ (strategy = BTGreaterEqualStrategyNumber \/
                             strategy = BTGreaterStrategyNumber \/
                             strategy = BTEqualStrategyNumber)
    THEN "empty"
    ELSE IF cmp_min <= 0 /\ (strategy = BTGreaterStrategyNumber \/
                             strategy = BTGreaterEqualStrategyNumber)
    THEN "full"
    ELSE IF cmp_max >= 0 /\ (strategy = BTLessEqualStrategyNumber \/
                             strategy = BTLessStrategyNumber)
    THEN "full"
    ELSE "search"

\* the corner cases checked before the binary search:
\* "empty" (no partition), "full" (every partition, complete) or "search"
CornerCase(cmp_min, cmp_max, strategy) ==
    IF \/ (cmp_min <= 0 /\ strategy = BTLessStrategyNumber)
       \/ (cmp_min < 0 /\ (strategy = BTLessEqualStrategyNumber \/
                           strategy = BTEqualStrategyNumber))
    THEN "empty"
    ELSE IF cmp_max >= 0 /\ (strategy = BTGreaterEqualStrategyNumber \/
                             strategy = BTGreaterStrategyNumber \/
                             strategy = BTEqualStrategyNumber)
    THEN "empty"
    ELSE IF \/ (cmp_min < 0 /\ strategy = BTGreaterStrategyNumber)
            \/ (cmp_min <= 0 /\ strategy = BTGreaterEqualStrategyNumber)
    THEN "full"
    ELSE IF cmp_max >= 0 /\ (strategy = BTLessEqualStrategyNumber \/
                             strategy = BTLessStrategyNumber)
    THEN "full"
    ELSE "search"

is_less(cmp_min, strategy) ==
    cmp_min < 0 \/ (cmp_min = 0 /\ strategy = BTLessStrategyNumber)

is_greater(cmp_max, strategy) ==
    cmp_max > 0 \/ (cmp_max >= 0 /\ strategy # BTLessStrategyNumber)

\* lossiness of the partition the search stopped at
SearchLossy(cmp_min, cmp_max, strategy) ==
    IF strategy = BTGreaterEqualStrategyNumber /\ cmp_min = 0 THEN FALSE
    ELSE IF strategy = BTLessStrategyNumber /\ cmp_max = 0 THEN FALSE
    ELSE TRUE

\* the binary search loop; 'counter' counts the pivots probed so far and
\* 'pivots' lists them
RECURSIVE BinarySearch(_, _, _, _, _, _)
BinarySearch(value_bound, rngs, strategy, startidx, endidx, counter) ==
    LET i       == startidx + CDiv(endidx - startidx, 2)
        cmp_min == cmp_bounds(value_bound, rngs[i + 1].min)
        cmp_max == cmp_bounds(value_bound, rngs[i + 1].max)
        less    == is_less(cmp_min, strategy)
        greater == is_greater(cmp_max, strategy)
    IN  IF ~less /\ ~greater
        THEN [found |-> TRUE, i |-> i, counter |-> counter + 1,
              lossy |-> SearchLossy(cmp_min, cmp_max, strategy), pivots |-> <<i>>]
        ELSE IF startidx >= endidx
        THEN [found |-> FALSE, i |-> i, counter |-> counter + 1, lossy |-> FALSE,
              pivots |-> <<i>>]
        ELSE LET rest == BinarySearch(value_bound, rngs, strategy,
                                      IF less THEN startidx ELSE i + 1,
                                      IF less THEN i - 1 ELSE endidx,
                                      counter + 1)
             IN  [rest EXCEPT !.pivots = <<i>> \o rest.pivots]

GapResult_NoFlag(result) == [result EXCEPT !.rangeset = NIL]

\* "Indices have met, looks like there's no partition"
GapResult(result) == [result EXCEPT !.rangeset = NIL, !.found_gap = TRUE]

FilterLess_Appended(i, lossy, result) ==
    IF lossy
    THEN [result EXCEPT !.rangeset =
            IF i > 0
            THEN lappend_irange(list_make1_irange(make_irange(i, i, IR_LOSSY)),
                                make_irange(0, i - 1, IR_COMPLETE))
            ELSE list_make1_irange(make_irange(i, i, IR_LOSSY))]
    ELSE [result EXCEPT !.rangeset = list_make1_irange(make_irange(0, i, IR_COMPLETE))]

\* "Filter partitions", cases BTLessStrategyNumber, BTLessEqualStrategyNumber
FilterLess(i, lossy, result) ==
    IF lossy
    THEN [result EXCEPT !.rangeset =
            IF i > 0
            THEN lcons_irange(make_irange(0, i - 1, IR_COMPLETE),
                              list_make1_irange(make_irange(i, i, IR_LOSSY)))
            ELSE list_make1_irange(make_irange(i, i, IR_LOSSY))]
    ELSE [result EXCEPT !.rangeset = list_make1_irange(make_irange(0, i, IR_COMPLETE))]

FilterEqual_Complete(i, result) ==
    [result EXCEPT !.rangeset = list_make1_irange(make_irange(i, i, IR_COMPLETE))]

\* "Filter partitions", case BTEqualStrategyNumber
FilterEqual(i, result) ==
    [result EXCEPT !.rangeset = list_make1_irange(make_irange(i, i, IR_LOSSY))]

\* "Filter partitions", cases BTGreaterEqualStrategyNumber, BTGreaterStrategyNumber
FilterGreater(i, lossy, nranges, result) ==
    IF lossy
    THEN [result EXCEPT !.rangeset =
            IF i < nranges - 1
            THEN lappend_irange(list_make1_irange(make_irange(i, i, IR_LOSSY)),
                                make_irange(i + 1, nranges - 1, IR_COMPLETE))
            ELSE list_make1_irange(make_irange(i, i, IR_LOSSY))]
    ELSE [result EXCEPT !.rangeset =
            list_make1_irange(make_irange(i, nranges - 1, IR_COMPLETE))]

\* "Filter partitions": the switch on 'strategy' after a successful search
FilterPartitions(strategy, i, lossy, nranges, result) ==
    IF strategy = BTLessStrategyNumber \/ strategy = BTLessEqualStrategyNumber
    THEN FilterLess(i, lossy, result)
    ELSE IF strategy = BTEqualStrategyNumber
    THEN FilterEqual(i, result)
    ELSE IF strategy = BTGreaterEqualStrategyNumber \/ strategy = BTGreaterStrategyNumber
    THEN FilterGreater(i, lossy, nranges, result)
    ELSE [result EXCEPT !.elog = "Unknown btree strategy"]

select_range_entry_KeepFlag(result) == result

\* "Initial value (no missing partitions found)"
select_range_entry(result) == [result EXCEPT !.found_gap = FALSE]

select_range_partitions(value, rngs, nranges, strategy, result) ==
    LET value_bound == MakeBound(value)
        res0        == select_range_entry(result)
    IN  IF nranges = 0 THEN [res0 EXCEPT !.rangeset = NIL]
        ELSE
        LET corner == CornerCase(cmp_bounds(value_bound, rngs[1].min),
                                 cmp_bounds(value_bound, rngs[nranges].max),
                                 strategy)
        IN  IF corner = "empty" THEN [res0 EXCEPT !.rangeset = NIL]
            ELSE IF corner = "full"
            THEN [res0 EXCEPT !.rangeset =
                    list_make1_irange(make_irange(0, nranges - 1, IR_COMPLETE))]
            ELSE
            LET s == BinarySearch(value_bound, rngs, strategy, 0, nranges - 1, 0)
            IN  IF s.found
                THEN FilterPartitions(strategy, s.i, s.lossy, nranges, res0)
                ELSE GapResult(res0)

(***************************************************************************)
(* Expression nodes                                                        *)
(***************************************************************************)
InvalidOid == 0
DEFAULT_COLLATION_OID == 100

\* every node carries every field; 'alloc' tells the allocation the node
\* lives in: "parse" (the caller's tree), "copy" (made by copyObject) or
\* "new" (made by makeNode)
Node(tag) ==
    [tag |-> tag, alloc |-> "parse", boolop |-> "", opno |-> "", useOr |-> FALSE,
     args |-> <<>>, consttype |-> "", constvalue |-> 0, constisnull |-> FALSE,
     constcollid |-> InvalidOid, varattno |-> 0, elemtype |-> "", elems |-> <<>>]

makeConst(consttype, constcollid, constvalue, constisnull) ==
    [Node("Const") EXCEPT !.consttype = consttype, !.constcollid = constcollid,
                          !.constvalue = constvalue, !.constisnull = constisnull]

\* a constant array; 'elems' are its elements [value, isnull] of type 'elemtype'
makeArrayConst(elemtype, elems, constisnull) ==
    [Node("Const") EXCEPT !.consttype = "array", !.elems = elems,
                          !.constisnull = constisnull, !.elemtype = elemtype]

makeVar(varattno) == [Node("Var") EXCEPT !.varattno = varattno]

\* Param $1; consttype and constcollid hold paramtype and paramcollid
makeParam(paramtype, paramcollid) ==
    [Node("Param") EXCEPT !.consttype = paramtype, !.constcollid = paramcollid]

makeOpExpr(opno, args) == [Node("OpExpr") EXCEPT !.opno = opno, !.args = args]

makeBoolExpr(boolop, args) == [Node("BoolExpr") EXCEPT !.boolop = boolop, !.args = args]

makeScalarArrayOpExpr(opno, useOr, args) ==
    [Node("ScalarArrayOpExpr") EXCEPT !.opno = opno, !.useOr = useOr, !.args = args]

\* any other kind of node, e.g. a NullTest
makeOther == Node("NullTest")

IsA(node, tag) == node.tag = tag

\* deep copy into a fresh allocation
RECURSIVE copyObject(_)
copyObject(node) ==
    [node EXCEPT !.alloc = "copy",
                 !.args = [k \in DOMAIN node.args |-> copyObject(node.args[k])]]

\* structural equality of two trees, wherever they are allocated
RECURSIVE equal(_, _)
equal(a, b) ==
    /\ [a EXCEPT !.alloc = "", !.args = <<>>] = [b EXCEPT !.alloc = "", !.args = <<>>]
    /\ Len(a.args) = Len(b.args)
    /\ \A k \in DOMAIN a.args : equal(a.args[k], b.args[k])

\* strategy of operator 'opno' in the btree operator family of the key type;
\* 0 when the operator is not a member of the family
get_op_opfamily_strategy(opno) ==
    CASE opno = "<"  -> BTLessStrategyNumber
      [] opno = "<=" -> BTLessEqualStrategyNumber
      [] opno = "="  -> BTEqualStrategyNumber
      [] opno = ">=" -> BTGreaterEqualStrategyNumber
      [] opno = ">"  -> BTGreaterStrategyNumber
      [] OTHER       -> 0

match_expr_to_operand(prel_expr, node) ==
    IsA(node, "Var") /\ node.varattno = prel_expr.varattno

(***************************************************************************)
(* PartRelationInfo and the helpers of the handlers                        *)
(***************************************************************************)
PrelChildrenCount(p) == p.children_count

PrelLastChild(p) == PrelChildrenCount(p) - 1

PrelGetRangesArray(p) == p.ranges

list_make1_irange_full(p, lossy) ==
    list_make1_irange(make_irange(0, PrelLastChild(p), lossy))

DEFAULT_INEQ_SEL == Rat(1, 3)

estimate_paramsel_using_prel_HashOnly(p, strategy) ==
    IF strategy = BTEqualStrategyNumber /\ p.parttype = "PT_HASH"
    THEN Rat(1, PrelChildrenCount(p))
    ELSE IF p.parttype = "PT_RANGE" /\ strategy > 0 THEN DEFAULT_INEQ_SEL
    ELSE Rat(1, 1)

estimate_paramsel_using_prel(p, strategy) ==
    IF strategy = BTEqualStrategyNumber THEN Rat(1, PrelChildrenCount(p))
    ELSE IF p.parttype = "PT_RANGE" /\ strategy > 0 THEN DEFAULT_INEQ_SEL
    ELSE Rat(1, 1)

\* explicit cast between base types: int8 -> int4 keeps the value, no other
\* type casts to the key type
perform_type_cast(value, in_type, out_type) ==
    IF in_type = out_type \/ (in_type = "int8" /\ out_type = "int4")
    THEN [value |-> value, success |-> TRUE]
    ELSE [value |-> 0, success |-> FALSE]

\* a comparison procedure exists for the two types
fill_type_cmp_fmgr_info(type1, type2) ==
    type1 \in {"int4", "int8"} /\ type2 \in {"int4", "int8"}

\* 32-bit hash of the key type, a signed Datum
hash_proc(value) == ((value * 7919 + 13) % 64) - 32

\* 2^32 modulo n
Pow32Mod(n) == ((65536 % n) * (65536 % n)) % n

\* uint32 value % partitions, 'value' being the int32 hash converted to uint32
hash_to_part_index(value, partitions) ==
    IF value >= 0 THEN value % partitions
    ELSE ((value % partitions) + Pow32Mod(partitions)) % partitions

(***************************************************************************)
(* Selectivity arithmetic on doubles                                       *)
(***************************************************************************)
IsNaN(x) == x[1] = 0 /\ x[2] = 0

RatMul(x, y) == Rat(x[1] * y[1], x[2] * y[2])

RatSub(x, y) ==
    IF x[2] = 0 /\ y[2] = 0 THEN Rat(x[1] - y[1], 0) ELSE
    IF x[2] = 0 THEN x ELSE
    IF y[2] = 0 THEN Rat(-y[1], 0) ELSE Rat(x[1] * y[2] - y[1] * x[2], x[2] * y[2])

\* x * (double) len / (double) totallen
RatScale(x, len, totallen) == Rat(x[1] * len, x[2] * totallen)

\* x > y on doubles: false when either is NaN
RatGt(x, y) ==
    IF IsNaN(x) \/ IsNaN(y) THEN FALSE
    ELSE IF x[2] = 0 /\ y[2] = 0 THEN x[1] > y[1]
    ELSE IF x[2] = 0 THEN x[1] > 0
    ELSE IF y[2] = 0 THEN y[1] < 0
    ELSE x[1] * y[2] > y[1] * x[2]

Max(x, y) == IF RatGt(x, y) THEN x ELSE y

RatLe(x, y) == ~IsNaN(x) /\ ~IsNaN(y) /\ ~RatGt(x, y)

(***************************************************************************)
(* handle_const()                                                          *)
(***************************************************************************)
\* label handle_const_return
handle_const_return(p, strategy, result) ==
    [result EXCEPT !.rangeset = list_make1_irange_full(p, IR_LOSSY),
                   !.paramsel = estimate_paramsel_using_prel(p, strategy)]

handle_const_null_Unknown(result) == [result EXCEPT !.rangeset = NIL, !.paramsel = Rat(1, 1)]

\* a NULL constant
handle_const_null(result) == [result EXCEPT !.rangeset = NIL, !.paramsel = Rat(0, 1)]

BoolGetDatum(b) == IF b THEN 1 ELSE 0

\* a constant of type BOOLOID
handle_const_bool(c, p, result) ==
    IF c.constvalue = BoolGetDatum(FALSE)
    THEN [result EXCEPT !.rangeset = NIL, !.paramsel = Rat(0, 1)]
    ELSE [result EXCEPT !.rangeset = list_make1_irange_full(p, IR_LOSSY),
                        !.paramsel = Rat(1, 1)]

handle_const_hash_select_Complete(value, strategy, p, result) ==
    LET hash == hash_proc(value)
        idx  == hash_to_part_index(hash, PrelChildrenCount(p))
    IN  [result EXCEPT
            !.rangeset = list_make1_irange(make_irange(idx, idx, IR_COMPLETE)),
            !.paramsel = estimate_paramsel_using_prel(p, strategy)]

\* "Calculate 32-bit hash of 'value' and corresponding index"
handle_const_hash_select(value, strategy, p, result) ==
    LET hash == hash_proc(value)
        idx  == hash_to_part_index(hash, PrelChildrenCount(p))
    IN  [result EXCEPT
            !.rangeset = list_make1_irange(make_irange(idx, idx, IR_LOSSY)),
            !.paramsel = estimate_paramsel_using_prel(p, strategy)]

handle_const_hash_IgnoreCast(c, strategy, p, result) ==
    IF strategy # BTEqualStrategyNumber THEN handle_const_return(p, strategy, result)
    ELSE handle_const_hash_select(c.constvalue, strategy, p, result)

\* case PT_HASH
handle_const_hash(c, strategy, p, result) ==
    IF strategy # BTEqualStrategyNumber THEN handle_const_return(p, strategy, result)
    ELSE
    LET cast == IF p.ev_type # c.consttype
                THEN perform_type_cast(c.constvalue, c.consttype, p.ev_type)
                ELSE [value |-> c.constvalue, success |-> TRUE]
    IN  IF ~cast.success
        THEN [result EXCEPT !.elog = "Cannot select partition: unable to perform type cast"]
        ELSE
        handle_const_hash_select(cast.value, strategy, p, result)

\* case PT_RANGE
handle_const_range(c, strategy, p, result) ==
    IF strategy # BTEqualStrategyNumber /\ c.constcollid # p.ev_collid
    THEN handle_const_return(p, strategy, result)
    ELSE IF ~fill_type_cmp_fmgr_info(c.consttype, p.ev_type)
    THEN [result EXCEPT !.elog = "missing comparison function"]
    ELSE [select_range_partitions(c.constvalue, PrelGetRangesArray(p),
                                  PrelChildrenCount(p), strategy, result)
            EXCEPT !.paramsel = estimate_paramsel_using_prel(p, strategy)]

handle_const(c, strategy, context, result) ==
    LET p == context.prel
    IN  IF strategy = 0 THEN handle_const_return(p, strategy, result)
        ELSE IF c.constisnull THEN handle_const_null(result)
        ELSE IF c.consttype = "bool" THEN handle_const_bool(c, p, result)
        ELSE IF p.parttype = "PT_HASH" THEN handle_const_hash(c, strategy, p, result)
        ELSE IF p.parttype = "PT_RANGE" THEN handle_const_range(c, strategy, p, result)
        ELSE [result EXCEPT !.elog = "Unknown partitioning type"]

(***************************************************************************)
(* walk_expr_tree() and the handlers of its node kinds                     *)
(***************************************************************************)
WcxtHasExprContext(context) == context.econtext.available

\* "We can transform Param into Const provided that 'econtext' is available"
IsConstValue(node, context) ==
    IsA(node, "Const") \/ (IF WcxtHasExprContext(context) THEN IsA(node, "Param") ELSE FALSE)

extract_const_NotNull(param, context) ==
    makeConst(param.consttype, param.constcollid, context.econtext.value, FALSE)

\* evaluates the Param in 'econtext' and wraps the value into a Const
extract_const(param, context) ==
    makeConst(param.consttype, param.constcollid,
              context.econtext.value, context.econtext.isnull)

ExtractConst(node, context) ==
    IF IsA(node, "Param") THEN extract_const(node, context) ELSE node

\* is it KEY OP PARAM or PARAM OP KEY?
is_key_op_param(e, context) ==
    LET left  == e.args[1]
        right == e.args[2]
    IN  IF match_expr_to_operand(context.prel_expr, left)
        THEN [matched |-> TRUE, param |-> right]
        ELSE IF match_expr_to_operand(context.prel_expr, right)
        THEN [matched |-> TRUE, param |-> left]
        ELSE [matched |-> FALSE, param |-> NULL]

\* the tail of handle_opexpr(): nothing is known about the clause
handle_opexpr_unknown(e, p, result) ==
    [result EXCEPT !.rangeset = list_make1_irange_full(p, IR_LOSSY),
                   !.paramsel = Rat(1, 1),
                   !.orig = e]

handle_opexpr(e, context, result) ==
    LET p == context.prel
    IN  IF Len(e.args) # 2 THEN handle_opexpr_unknown(e, p, result)
        ELSE
        LET k        == is_key_op_param(e, context)
            strategy == get_op_opfamily_strategy(e.opno)
        IN  IF ~k.matched THEN handle_opexpr_unknown(e, p, result)
            ELSE IF IsConstValue(k.param, context)
            THEN [handle_const(ExtractConst(k.param, context), strategy, context, result)
                    EXCEPT !.orig = e]
            ELSE IF IsA(k.param, "Param") \/ IsA(k.param, "Var")
            THEN [result EXCEPT
                    !.rangeset = list_make1_irange_full(p, IR_LOSSY),
                    !.paramsel = estimate_paramsel_using_prel(p, strategy),
                    !.orig = e]
            ELSE handle_opexpr_unknown(e, p, result)

\* label handle_arrexpr_return
handle_arrexpr_return(p, strategy, result) ==
    [result EXCEPT !.rangeset = list_make1_irange_full(p, IR_LOSSY),
                   !.paramsel = estimate_paramsel_using_prel(p, strategy)]

\* the loop over the elements of a constant array, from element i on;
\* 'acc' holds 'ranges', result->paramsel and the ERROR raised so far
RECURSIVE handle_arrexpr_elems(_, _, _, _, _, _)
handle_arrexpr_elems(e, arraynode, strategy, context, i, acc) ==
    IF i > Len(arraynode.elems) \/ acc.elog # "" THEN acc
    ELSE
    LET c   == makeConst(arraynode.elemtype, InvalidOid,
                         arraynode.elems[i].value, arraynode.elems[i].isnull)
        sub == handle_const(c, strategy, context, EmptyWrapper)
    IN  handle_arrexpr_elems(e, arraynode, strategy, context, i + 1,
            [ranges   |-> IF e.useOr
                          THEN irange_list_union(acc.ranges, sub.rangeset)
                          ELSE irange_list_intersection(acc.ranges, sub.rangeset),
             paramsel |-> Max(acc.paramsel, sub.paramsel),
             elog     |-> sub.elog])

handle_arrexpr_SeedNil(e, context, result) ==
    LET exprnode  == e.args[1]
        arraynode == e.args[2]
        p         == context.prel
        strategy  == get_op_opfamily_strategy(e.opno)
        res0      == [result EXCEPT !.orig = e]
    IN  IF ~match_expr_to_operand(context.prel_expr, exprnode)
        THEN handle_arrexpr_return(p, strategy, res0)
        ELSE IF arraynode # NULL /\ IsA(arraynode, "Const") /\ ~arraynode.constisnull
        THEN LET acc == handle_arrexpr_elems(e, arraynode, strategy, context, 1,
                            [ranges   |-> NIL,
                             paramsel |-> res0.paramsel,
                             elog     |-> ""])
             IN  IF acc.elog # "" THEN [res0 EXCEPT !.elog = acc.elog]
                 ELSE [res0 EXCEPT
                        !.rangeset = acc.ranges,
                        !.paramsel = IF Len(arraynode.elems) = 0 THEN Rat(0, 1)
                                     ELSE acc.paramsel]
        ELSE handle_arrexpr_return(p, strategy, res0)

handle_arrexpr(e, context, result) ==
    LET exprnode  == e.args[1]
        arraynode == e.args[2]
        p         == context.prel
        strategy  == get_op_opfamily_strategy(e.opno)
        res0      == [result EXCEPT !.orig = e]
    IN  IF ~match_expr_to_operand(context.prel_expr, exprnode)
        THEN handle_arrexpr_return(p, strategy, res0)
        ELSE IF arraynode # NULL /\ IsA(arraynode, "Const") /\ ~arraynode.constisnull
        THEN LET acc == handle_arrexpr_elems(e, arraynode, strategy, context, 1,
                            [ranges   |-> IF e.useOr THEN NIL
                                          ELSE list_make1_irange_full(p, IR_COMPLETE),
                             paramsel |-> res0.paramsel,
                             elog     |-> ""])
             IN  IF acc.elog # "" THEN [res0 EXCEPT !.elog = acc.elog]
                 ELSE [res0 EXCEPT
                        !.rangeset = acc.ranges,
                        !.paramsel = IF Len(arraynode.elems) = 0 THEN Rat(0, 1)
                                     ELSE acc.paramsel]
        ELSE handle_arrexpr_return(p, strategy, res0)

handle_boolexpr_combine_OrKeepsLast(boolop, p, rangeset, arg_rangeset) ==
    IF boolop = "OR_EXPR" THEN arg_rangeset
    ELSE IF boolop = "AND_EXPR" THEN irange_list_intersection(rangeset, arg_rangeset)
    ELSE list_make1_irange_full(p, IR_LOSSY)

\* "switch (expr->boolop)": the rangeset of the node after one more argument
handle_boolexpr_combine(boolop, p, rangeset, arg_rangeset) ==
    IF boolop = "OR_EXPR" THEN irange_list_union(rangeset, arg_rangeset)
    ELSE IF boolop = "AND_EXPR" THEN irange_list_intersection(rangeset, arg_rangeset)
    ELSE list_make1_irange_full(p, IR_LOSSY)

RECURSIVE handle_boolexpr_rangeset_SkipFirst(_, _, _, _, _)
handle_boolexpr_rangeset_SkipFirst(boolop, p, arg_results, k, rangeset) ==
    IF k > Len(arg_results) THEN rangeset
    ELSE handle_boolexpr_rangeset_SkipFirst(boolop, p, arg_results, k + 1,
            IF k = 1 THEN rangeset
            ELSE handle_boolexpr_combine(boolop, p, rangeset, arg_results[k].rangeset))

\* the first loop of handle_boolexpr(): the rangeset after arguments k..
RECURSIVE handle_boolexpr_rangeset(_, _, _, _, _)
handle_boolexpr_rangeset(boolop, p, arg_results, k, rangeset) ==
    IF k > Len(arg_results) THEN rangeset
    ELSE handle_boolexpr_rangeset(boolop, p, arg_results, k + 1,
            handle_boolexpr_combine(boolop, p, rangeset, arg_results[k].rangeset))

\* result->paramsel *= arg_result->paramsel, over the arguments of an AND
RECURSIVE handle_boolexpr_and_sel(_, _, _)
handle_boolexpr_and_sel(arg_results, k, paramsel) ==
    IF k > Len(arg_results) THEN paramsel
    ELSE handle_boolexpr_and_sel(arg_results, k + 1,
                                 RatMul(paramsel, arg_results[k].paramsel))

handle_boolexpr_or_term_Unweighted(arg, totallen) == RatSub(Rat(1, 1), arg.paramsel)

\* "1.0 - arg->paramsel * (double)len / (double)totallen"
handle_boolexpr_or_term(arg, totallen) ==
    LET len == irange_list_length(arg.rangeset)
    IN  RatSub(Rat(1, 1), RatScale(arg.paramsel, len, totallen))

\* the second loop of handle_boolexpr(), over the arguments of an OR
RECURSIVE handle_boolexpr_or_sel(_, _, _, _)
handle_boolexpr_or_sel(arg_results, k, totallen, paramsel) ==
    IF k > Len(arg_results) THEN paramsel
    ELSE handle_boolexpr_or_sel(arg_results, k + 1, totallen,
            RatMul(paramsel, handle_boolexpr_or_term(arg_results[k], totallen)))

\* the ERROR that ended the walk of the arguments, "" when none did
FirstElog(arg_results) ==
    LET bad == {k \in DOMAIN arg_results : arg_results[k].elog # ""}
    IN  IF bad = {} THEN ""
        ELSE arg_results[CHOOSE k \in bad : \A m \in bad : k <= m].elog

handle_boolexpr_args_SeedNil(e, p, arg_results, result) ==
    LET res0     == [result EXCEPT !.orig = e, !.args = arg_results,
                                   !.paramsel = Rat(1, 1)]
        rangeset == handle_boolexpr_rangeset(e.boolop, p, arg_results, 1, NIL)
    IN  IF FirstElog(arg_results) # ""
        THEN [res0 EXCEPT !.elog = FirstElog(arg_results)]
        ELSE IF e.boolop = "AND_EXPR"
        THEN [res0 EXCEPT !.rangeset = rangeset,
                          !.paramsel = handle_boolexpr_and_sel(arg_results, 1, Rat(1, 1))]
        ELSE IF e.boolop = "OR_EXPR"
        THEN [res0 EXCEPT !.rangeset = rangeset,
                          !.paramsel =
                            RatSub(Rat(1, 1),
                                   handle_boolexpr_or_sel(arg_results, 1,
                                        irange_list_length(rangeset), Rat(1, 1)))]
        ELSE [res0 EXCEPT !.rangeset = rangeset]

\* handle_boolexpr() once its arguments have been walked
handle_boolexpr_args(e, p, arg_results, result) ==
    LET res0     == [result EXCEPT !.orig = e, !.args = arg_results,
                                   !.paramsel = Rat(1, 1)]
        rangeset == handle_boolexpr_rangeset(e.boolop, p, arg_results, 1,
                        IF e.boolop = "AND_EXPR"
                        THEN list_make1_irange_full(p, IR_COMPLETE)
                        ELSE NIL)
    IN  IF FirstElog(arg_results) # ""
        THEN [res0 EXCEPT !.elog = FirstElog(arg_results)]
        ELSE IF e.boolop = "AND_EXPR"
        THEN [res0 EXCEPT !.rangeset = rangeset,
                          !.paramsel = handle_boolexpr_and_sel(arg_results, 1, Rat(1, 1))]
        ELSE IF e.boolop = "OR_EXPR"
        THEN [res0 EXCEPT !.rangeset = rangeset,
                          !.paramsel =
                            RatSub(Rat(1, 1),
                                   handle_boolexpr_or_sel(arg_results, 1,
                                        irange_list_length(rangeset), Rat(1, 1)))]
        ELSE [res0 EXCEPT !.rangeset = rangeset]

\* the default case of walk_expr_tree()
walk_expr_tree_default(e, context, result) ==
    [result EXCEPT !.orig = e, !.args = NIL,
                   !.rangeset = list_make1_irange_full(context.prel, IR_LOSSY),
                   !.paramsel = Rat(1, 1)]

RECURSIVE walk_expr_tree(_, _)
walk_expr_tree(e, context) ==
    LET result == EmptyWrapper
    IN  IF IsA(e, "Const")
        THEN handle_const(e, BTEqualStrategyNumber, context, result)
        ELSE IF IsA(e, "BoolExpr")
        THEN handle_boolexpr_args(e, context.prel,
                [k \in DOMAIN e.args |-> walk_expr_tree(e.args[k], context)], result)
        ELSE IF IsA(e, "OpExpr") THEN handle_opexpr(e, context, result)
        ELSE IF IsA(e, "ScalarArrayOpExpr") THEN handle_arrexpr(e, context, result)
        ELSE walk_expr_tree_default(e, context, result)

(***************************************************************************)
(* wrapper_make_expression()                                               *)
(***************************************************************************)
\* what the call gives back: the returned Node, *alwaysTrue, the assertion
\* an assert-enabled build stops at, and whether a null pointer was read
MakeExprResult(node, alwaysTrue, assertion, crash) ==
    [node |-> node, alwaysTrue |-> alwaysTrue, assertion |-> assertion, crash |-> crash]

\* the BoolExpr built from the surviving arguments (or the only survivor)
wrapper_make_boolexpr(e, args) ==
    IF Len(args) = 1 THEN args[1]
    ELSE [Node("BoolExpr") EXCEPT !.alloc = "new", !.args = args, !.boolop = e.boolop]

\* the first assertion that fails while the arguments 'subs' are collected
wrapper_make_asserts(e, subs, args) ==
    LET bad == {k \in DOMAIN subs :
                    \/ subs[k].assertion # ""
                    \/ (e.boolop = "OR_EXPR" /\ subs[k].alwaysTrue)
                    \/ (e.boolop = "AND_EXPR" /\ subs[k].node = NULL
                            /\ ~subs[k].alwaysTrue)}
    IN  IF bad # {}
        THEN LET k == CHOOSE j \in bad : \A m \in bad : j <= m
             IN  IF subs[k].assertion # "" THEN subs[k].assertion
                 ELSE IF e.boolop = "OR_EXPR" THEN "Assert(!childAlwaysTrue)"
                 ELSE "Assert(arg || childAlwaysTrue)"
        ELSE IF Len(args) < 1 THEN "Assert(list_length(args) >= 1)"
        ELSE ""

wrapper_lookup_NoCompleteCheck(rangeset, index) ==
    LET f == irange_list_find(rangeset, index)
    IN  IF ~f.found THEN "exclude" ELSE "lossy"

\* the lookup at the head of wrapper_make_expression(): "exclude",
\* "nofilter" or "lossy"
wrapper_lookup(rangeset, index) ==
    LET f == irange_list_find(rangeset, index)
    IN  IF ~f.found THEN "exclude"
        ELSE IF ~f.lossy THEN "nofilter"
        ELSE "lossy"

wrapper_copy_orig_NoCopy(w) == MakeExprResult(w.orig, FALSE, "", FALSE)

\* "return (Node *) copyObject(wrap->orig)"
wrapper_copy_orig(w) == MakeExprResult(copyObject(w.orig), FALSE, "", FALSE)

wrapper_is_and_or_AnyBoolExpr(orig) == IsA(orig, "BoolExpr")

\* the node is rebuilt from its arguments: a BoolExpr that is an OR or an AND
wrapper_is_and_or(orig) ==
    IsA(orig, "BoolExpr") /\ orig.boolop \in {"OR_EXPR", "AND_EXPR"}

RECURSIVE wrapper_make_expression(_, _)
wrapper_make_expression(w, index) ==
    LET look == wrapper_lookup(w.rangeset, index)
    IN  IF look = "exclude" THEN MakeExprResult(NULL, FALSE, "", FALSE)
        ELSE IF look = "nofilter" THEN MakeExprResult(NULL, TRUE, "", FALSE)
        ELSE IF w.orig = NULL THEN MakeExprResult(NULL, FALSE, "", TRUE)
        ELSE IF wrapper_is_and_or(w.orig)
        THEN LET subs == [k \in DOMAIN w.args |->
                            wrapper_make_expression(w.args[k], index)]
                 args == SelectSeq([k \in DOMAIN subs |-> subs[k].node],
                                   LAMBDA n : n # NULL)
             IN  MakeExprResult(wrapper_make_boolexpr(w.orig, args), FALSE,
                                wrapper_make_asserts(w.orig, subs, args),
                                \E k \in DOMAIN subs : subs[k].crash)
        ELSE wrapper_copy_orig(w)

(***************************************************************************)
(* The 'ranges' arrays: sorted, non-overlapping, gaps allowed, the first   *)
(* min possibly -infinity and the last max possibly +infinity              *)
(***************************************************************************)
FiniteEntries ==
    {[min |-> MakeBound(p[1]), max |-> MakeBound(p[2])] :
        p \in {q \in Values \X Values : q[1] < q[2]}}

\* min < max in every entry, and no entry starts before its predecessor ends
SortedRanges(r) ==
    /\ \A k \in DOMAIN r : r[k].min.value < r[k].max.value
    /\ \A k \in DOMAIN r : k + 1 \in DOMAIN r => r[k].max.value <= r[k + 1].min.value

RECURSIVE FiniteRangeArrays(_)
FiniteRangeArrays(n) ==
    IF n = 0 THEN {<<>>}
    ELSE {r \in {Append(head, e) : head \in FiniteRangeArrays(n - 1), e \in FiniteEntries} :
            SortedRanges(r)}

WithInfinity(r, lo, hi) ==
    [k \in DOMAIN r |->
        [min |-> IF k = 1 /\ lo THEN MakeBoundInf(MINUS_INFINITY) ELSE r[k].min,
         max |-> IF k = Len(r) /\ hi THEN MakeBoundInf(PLUS_INFINITY) ELSE r[k].max]]

RangeArrays ==
    UNION {{WithInfinity(r, lo, hi) : r \in FiniteRangeArrays(n), lo, hi \in BOOLEAN} :
            n \in 0 .. MaxParts}

NoCall == [called |-> FALSE]

NotWalked == [state |-> "none"]

NoEcontext == [available |-> FALSE, value |-> 0, isnull |-> FALSE]

(***************************************************************************)
(* The cached Oids of the pg_pathman configuration relations               *)
(***************************************************************************)
OidIsValid(oid) == oid # InvalidOid

\* "Oid pathman_config_relid = InvalidOid, pathman_config_params_relid =
\* InvalidOid", and no getter called yet
NoPathmanConfig ==
    /\ pathman_config_relid = InvalidOid
    /\ pathman_config_params_relid = InvalidOid
    /\ relid = NoCall

\* the message of the ERROR raised for an invalid Oid
get_relid_error(initialized, function) ==
    IF ~initialized THEN "pg_pathman is not initialized yet"
    ELSE "unexpected error in function " \o function

\* "Get cached PATHMAN_CONFIG relation Oid"
get_pathman_config_relid(invalid_is_ok, initialized) ==
    IF ~OidIsValid(pathman_config_relid) /\ ~invalid_is_ok
    THEN [elog |-> get_relid_error(initialized, "get_pathman_config_relid"),
          oid |-> InvalidOid]
    ELSE [elog |-> "", oid |-> pathman_config_relid]

\* "Get cached PATHMAN_CONFIG_PARAMS relation Oid"
get_pathman_config_params_relid(invalid_is_ok, initialized) ==
    IF ~OidIsValid(pathman_config_relid) /\ ~invalid_is_ok
    THEN [elog |-> get_relid_error(initialized, "get_pathman_config_params_relid"),
          oid |-> InvalidOid]
    ELSE [elog |-> "", oid |-> pathman_config_params_relid]

(***************************************************************************)
(* Specification of the selector alone: one direct call per step           *)
(***************************************************************************)
InitRange ==
    /\ ranges \in RangeArrays
    /\ sel = NoCall
    /\ prel = NULL
    /\ econtext = NoEcontext
    /\ expr = NULL
    /\ wrap = NotWalked
    /\ rebuilt = NoCall
    /\ algebra = NoCall
    /\ NoPathmanConfig

\* the loop of a call that reaches "Binary search": 'found', the number of
\* pivots probed and the pivots
select_range_search(value, rngs, nranges, strategy) ==
    IF nranges = 0 THEN [ran |-> FALSE]
    ELSE IF CornerCase(cmp_bounds(MakeBound(value), rngs[1].min),
                       cmp_bounds(MakeBound(value), rngs[nranges].max),
                       strategy) # "search"
    THEN [ran |-> FALSE]
    ELSE LET s == BinarySearch(MakeBound(value), rngs, strategy, 0, nranges - 1, 0)
         IN  [ran |-> TRUE, found |-> s.found, counter |-> s.counter,
              pivots |-> s.pivots]

\* the caller's WrapperNode comes from palloc0() or, for the elements of an
\* array, from the stack: its found_gap holds whatever was there before
SelectRange(value, strategy, found_gap) ==
    /\ ~sel.called
    /\ sel' = [called |-> TRUE, value |-> value, strategy |-> strategy,
               found_gap |-> found_gap,
               result |-> select_range_partitions(value, ranges, Len(ranges), strategy,
                            [EmptyWrapper EXCEPT !.found_gap = found_gap]),
               search |-> select_range_search(value, ranges, Len(ranges), strategy)]
    /\ UNCHANGED <<ranges, prel, econtext, expr, wrap, rebuilt, algebra, config_vars>>

NextRange ==
    \E value \in Values, strategy \in BTStrategies, found_gap \in BOOLEAN :
        SelectRange(value, strategy, found_gap)

SpecRange == InitRange /\ [][NextRange]_vars

(***************************************************************************)
(* Partitioning schemes and predicates of the walker                       *)
(***************************************************************************)
\* RANGE layouts walked: partitions 1 or 2 keys wide, a first min of 0 or 1,
\* gaps at most 1 key wide
WalkRangeArrays ==
    UNION {{r \in FiniteRangeArrays(n) :
                /\ r[1].min.value <= 1
                /\ \A k \in DOMAIN r : r[k].max.value - r[k].min.value <= 2
                /\ \A k \in DOMAIN r :
                        k + 1 \in DOMAIN r => r[k + 1].min.value - r[k].max.value <= 1} :
            n \in 1 .. MaxParts}

RangePrel(r) ==
    [parttype |-> "PT_RANGE", ranges |-> r, children_count |-> Len(r),
     ev_type |-> "int4", ev_collid |-> InvalidOid]

HashPrel(n) ==
    [parttype |-> "PT_HASH", ranges |-> <<>>, children_count |-> n,
     ev_type |-> "int4", ev_collid |-> InvalidOid]

\* HASH schemes need no bounds array: they go one partition further
Schemes ==
    {RangePrel(r) : r \in WalkRangeArrays} \cup {HashPrel(n) : n \in 1 .. MaxParts + 1}

\* the partitioning key is column 1
prel_expr == makeVar(1)

Operators == {"<", "<=", "=", ">=", ">", "<>"}

KeyOp(opno, node) == makeOpExpr(opno, <<prel_expr, node>>)

Int4Const(v) == makeConst("int4", InvalidOid, v, FALSE)
NullConst    == makeConst("int4", InvalidOid, 0, TRUE)
BoolConst(b) == makeConst("bool", InvalidOid, BoolGetDatum(b), FALSE)

ConstLeaves ==
    {Int4Const(v) : v \in Values}
        \cup {NullConst, BoolConst(TRUE), BoolConst(FALSE),
              makeConst("bool", InvalidOid, 0, TRUE),
              makeConst("int8", InvalidOid, 1, FALSE),
              makeConst("text", DEFAULT_COLLATION_OID, 1, FALSE)}

\* comparisons of the key with a constant
KeyConstLeaves ==
    {KeyOp(opno, Int4Const(v)) : opno \in Operators, v \in Values}
        \cup {KeyOp(opno, c) : opno \in Operators,
                               c \in {NullConst, BoolConst(TRUE), BoolConst(FALSE)}}
        \cup {KeyOp(opno, c) : opno \in {"=", "<"},
                               c \in {makeConst("int8", InvalidOid, 1, FALSE),
                                      makeConst("text", DEFAULT_COLLATION_OID, 1, FALSE),
                                      makeConst("int4", DEFAULT_COLLATION_OID, 1, FALSE)}}

\* the constant on the left of the key
ConstKeyLeaves ==
    {makeOpExpr(opno, <<Int4Const(v), prel_expr>>) : opno \in Operators, v \in {1, 3}}

\* clauses the walker knows nothing about
OpaqueLeaves ==
    {KeyOp(opno, makeVar(2)) : opno \in {"=", "<", "<>"}}
        \cup {makeOpExpr("=", <<makeVar(2), Int4Const(1)>>),
              makeOpExpr("-", <<prel_expr>>),
              KeyOp("=", makeOther),
              makeOther}

ParamLeaves == {KeyOp(opno, makeParam("int4", InvalidOid)) : opno \in Operators}

Econtexts ==
    {NoEcontext, [available |-> TRUE, value |-> 0, isnull |-> TRUE]}
        \cup {[available |-> TRUE, value |-> v, isnull |-> FALSE] : v \in {1, 3}}

ArrayElems == {[value |-> 1, isnull |-> FALSE], [value |-> 3, isnull |-> FALSE],
               [value |-> 0, isnull |-> TRUE]}

Arrays == {<<>>} \cup {<<a>> : a \in ArrayElems} \cup {<<a, b>> : a, b \in ArrayElems}

ArrayLeaves ==
    {makeScalarArrayOpExpr(opno, useOr, <<prel_expr, makeArrayConst("int4", a, FALSE)>>) :
        opno \in {"=", "<", "<>"}, useOr \in BOOLEAN, a \in Arrays}
        \cup {makeScalarArrayOpExpr("=", useOr, <<prel_expr, node>>) :
                useOr \in BOOLEAN,
                node \in {makeArrayConst("int4", <<>>, TRUE),
                          makeParam("array", InvalidOid),
                          makeArrayConst("text", <<[value |-> 1, isnull |-> FALSE]>>, FALSE)}}
        \cup {makeScalarArrayOpExpr("=", TRUE,
                <<makeVar(2), makeArrayConst("int4", <<[value |-> 1, isnull |-> FALSE]>>,
                                             FALSE)>>)}

\* arguments of the boolean clauses
BoolArgs ==
    {KeyOp("=", Int4Const(1)), KeyOp("=", Int4Const(3)), KeyOp("<", Int4Const(2)),
     KeyOp(">=", Int4Const(2)), KeyOp("=", Int4Const(MaxBound)), KeyOp("=", NullConst),
     BoolConst(TRUE), makeOther}

NestedArgs == {KeyOp("=", Int4Const(3)), KeyOp("<", Int4Const(2)), KeyOp(">=", Int4Const(2))}

BoolClauses ==
    {makeBoolExpr(boolop, <<a, b>>) : boolop \in {"AND_EXPR", "OR_EXPR"}, a, b \in BoolArgs}
        \cup {makeBoolExpr("NOT_EXPR", <<a>>) : a \in BoolArgs}
        \cup {makeBoolExpr(outer, <<makeBoolExpr(inner, <<a, b>>), c>>) :
                outer, inner \in {"AND_EXPR", "OR_EXPR"}, a, b, c \in NestedArgs}

\* `key = 5 AND key < 1`, and `key = ANY (5, 3, 1)`, `key = ALL (5, 3, 1)`
ScenarioClauses ==
    {makeBoolExpr("AND_EXPR", <<KeyOp("=", Int4Const(5)), KeyOp("<", Int4Const(1))>>)}
        \cup {makeScalarArrayOpExpr("=", useOr,
                <<prel_expr,
                  makeArrayConst("int4", <<[value |-> 5, isnull |-> FALSE],
                                           [value |-> 3, isnull |-> FALSE],
                                           [value |-> 1, isnull |-> FALSE]>>, FALSE)>>) :
                useOr \in BOOLEAN}

Predicates ==
    ConstLeaves \cup KeyConstLeaves \cup ConstKeyLeaves \cup OpaqueLeaves
        \cup ArrayLeaves \cup BoolClauses \cup ScenarioClauses

\* the calls of walk_expr_tree(): a predicate and the WalkerContext's econtext
WalkInputs ==
    {[expr |-> e, econtext |-> NoEcontext] : e \in Predicates}
        \cup {[expr |-> e, econtext |-> ec] : e \in ParamLeaves, ec \in Econtexts}

(***************************************************************************)
(* Specification of one pruning call: the predicate is walked once, then   *)
(* the clause of each partition is rebuilt                                 *)
(***************************************************************************)
Init ==
    /\ prel \in Schemes
    /\ econtext = NoEcontext
    /\ expr = NULL
    /\ wrap = NotWalked
    /\ rebuilt = NoCall
    /\ algebra = NoCall
    /\ NoPathmanConfig
    /\ ranges = <<>>
    /\ sel = NoCall

\* walk_expr_tree(expr, context); an ERROR leaves no WrapperNode behind
Walk(in) ==
    /\ wrap.state = "none"
    /\ expr' = in.expr
    /\ econtext' = in.econtext
    /\ LET w == walk_expr_tree(in.expr, [prel |-> prel, prel_expr |-> prel_expr,
                                         econtext |-> in.econtext])
       IN  wrap' = IF w.elog # "" THEN [state |-> "error", elog |-> w.elog]
                   ELSE [state |-> "done", node |-> w]
    /\ UNCHANGED <<prel, rebuilt, ranges, sel, algebra, config_vars>>

\* wrapper_make_expression(wrap, index, &alwaysTrue) for one partition
Rebuild(index) ==
    /\ wrap.state = "done"
    /\ rebuilt' = [called |-> TRUE, index |-> index,
                   result |-> wrapper_make_expression(wrap.node, index)]
    /\ UNCHANGED <<prel, econtext, expr, wrap, ranges, sel, algebra, config_vars>>

Next ==
    \/ \E in \in WalkInputs : Walk(in)
    \/ \E index \in 0 .. PrelLastChild(prel) : Rebuild(index)

Spec == Init /\ [][Next]_vars

(***************************************************************************)
(* Specification of the rangeset algebra alone: three rangesets over the   *)
(* same partitions are combined the way handle_boolexpr() combines the     *)
(* rangesets of the arguments of an AND or an OR                           *)
(***************************************************************************)
\* every rangeset over partitions 0 .. n-1
Rangesets(n) ==
    {irange_list_build(covered, lossy, 0, n - 1) :
        covered \in SUBSET (0 .. n - 1), lossy \in SUBSET (0 .. n - 1)}

\* the rangesets over n partitions, for each n of the model
RangesetsOf == [n \in 1 .. MaxParts |-> Rangesets(n)]

InitAlgebra ==
    /\ \E n \in 1 .. MaxParts :
        \E a, b \in RangesetsOf[n] :
            algebra = [called |-> FALSE, n |-> n, a |-> a, b |-> b]
    /\ ranges = <<>>
    /\ sel = NoCall
    /\ prel = NULL
    /\ econtext = NoEcontext
    /\ expr = NULL
    /\ wrap = NotWalked
    /\ rebuilt = NoCall
    /\ NoPathmanConfig

\* a and b are combined with a third rangeset c, in either order and either
\* grouping, and with the full COMPLETE span
Combine(c) ==
    /\ ~algebra.called
    /\ LET a    == algebra.a
           b    == algebra.b
           full == list_make1_irange(make_irange(0, algebra.n - 1, IR_COMPLETE))
       IN  algebra' =
            [called |-> TRUE, n |-> algebra.n, a |-> a, b |-> b, c |-> c,
             union_ab             |-> irange_list_union(a, b),
             union_ba             |-> irange_list_union(b, a),
             union_ab_c           |-> irange_list_union(irange_list_union(a, b), c),
             union_a_bc           |-> irange_list_union(a, irange_list_union(b, c)),
             union_a_full         |-> irange_list_union(a, full),
             intersection_ab      |-> irange_list_intersection(a, b),
             intersection_ba      |-> irange_list_intersection(b, a),
             intersection_ab_c    |->
                irange_list_intersection(irange_list_intersection(a, b), c),
             intersection_a_bc    |->
                irange_list_intersection(a, irange_list_intersection(b, c)),
             intersection_a_full  |-> irange_list_intersection(a, full)]
    /\ UNCHANGED <<ranges, sel, prel, econtext, expr, wrap, rebuilt, config_vars>>

NextAlgebra == \E c \in RangesetsOf[algebra.n] : Combine(c)

SpecAlgebra == InitAlgebra /\ [][NextAlgebra]_vars

(***************************************************************************)
(* Specification of the getters of the cached Oids: the two Oids are as    *)
(* the initialization code left them, then one getter is called            *)
(***************************************************************************)
\* InvalidOid and the Oids of a few relations
RelationOids == InvalidOid .. MaxParts + 1

InitConfig ==
    /\ pathman_config_relid \in RelationOids
    /\ pathman_config_params_relid \in RelationOids
    /\ relid = NoCall
    /\ ranges = <<>>
    /\ sel = NoCall
    /\ prel = NULL
    /\ econtext = NoEcontext
    /\ expr = NULL
    /\ wrap = NotWalked
    /\ rebuilt = NoCall
    /\ algebra = NoCall

\* 'initialized' is IsPathmanInitialized() at the time of the call
GetPathmanConfigRelid(invalid_is_ok, initialized) ==
    /\ ~relid.called
    /\ relid' = [called |-> TRUE, function |-> "get_pathman_config_relid",
                 invalid_is_ok |-> invalid_is_ok, initialized |-> initialized,
                 before |-> <<pathman_config_relid, pathman_config_params_relid>>,
                 result |-> get_pathman_config_relid(invalid_is_ok, initialized)]
    /\ UNCHANGED <<pathman_config_relid, pathman_config_params_relid>>
    /\ UNCHANGED <<ranges, sel, prel, econtext, expr, wrap, rebuilt, algebra>>

GetPathmanConfigParamsRelid(invalid_is_ok, initialized) ==
    /\ ~relid.called
    /\ relid' = [called |-> TRUE, function |-> "get_pathman_config_params_relid",
                 invalid_is_ok |-> invalid_is_ok, initialized |-> initialized,
                 before |-> <<pathman_config_relid, pathman_config_params_relid>>,
                 result |-> get_pathman_config_params_relid(invalid_is_ok, initialized)]
    /\ UNCHANGED <<pathman_config_relid, pathman_config_params_relid>>
    /\ UNCHANGED <<ranges, sel, prel, econtext, expr, wrap, rebuilt, algebra>>

NextConfig ==
    \/ \E invalid_is_ok, initialized \in BOOLEAN :
            GetPathmanConfigRelid(invalid_is_ok, initialized)
    \/ \E invalid_is_ok, initialized \in BOOLEAN :
            GetPathmanConfigParamsRelid(invalid_is_ok, initialized)

SpecConfig == InitConfig /\ [][NextConfig]_vars

(***************************************************************************)
(* Properties of select_range_partitions(), checked under SpecRange        *)
(***************************************************************************)
\* keys are taken from a dense order: key2 is twice the key, so that a key
\* lies strictly between any two neighbouring bounds
KeyDom == -1 .. 2 * MaxBound + 1

InSpan(key2, entry) ==
    /\ entry.min.is_infinite = MINUS_INFINITY \/ 2 * entry.min.value <= key2
    /\ entry.max.is_infinite = PLUS_INFINITY \/ key2 < 2 * entry.max.value

KeySatisfies(key2, strategy, value) ==
    CASE strategy = BTLessStrategyNumber         -> key2 < 2 * value
      [] strategy = BTLessEqualStrategyNumber    -> key2 <= 2 * value
      [] strategy = BTEqualStrategyNumber        -> key2 = 2 * value
      [] strategy = BTGreaterEqualStrategyNumber -> key2 >= 2 * value
      [] strategy = BTGreaterStrategyNumber      -> key2 > 2 * value

\* partition k (0-based) of 'ranges' can hold a key that satisfies the call
CanMatch(k) ==
    \E key2 \in KeyDom : InSpan(key2, ranges[k + 1])
                            /\ KeySatisfies(key2, sel.strategy, sel.value)

\* the value of the call lies in the gap after partition k (0-based)
InGapAfter(k) ==
    /\ k + 2 <= Len(ranges)
    /\ cmp_bounds(MakeBound(sel.value), ranges[k + 1].max) >= 0
    /\ cmp_bounds(MakeBound(sel.value), ranges[k + 2].min) < 0

\* C1: the rangeset returned by select_range_partitions contains every
\* partition whose span holds a key satisfying `key op value`, also when
\* the value lies in a gap between two partitions
C1_SelectedCoversEveryMatch ==
    sel.called =>
        \A k \in 0 .. Len(ranges) - 1 :
            CanMatch(k) => irange_list_find(sel.result.rangeset, k).found

\* C2: a value equal to the min bound of partition k+1 gives
\* {[k+1, n-1], COMPLETE} under >= and {[0, k], COMPLETE} under <
C2_ValueAtMinBound ==
    sel.called =>
        \A k \in 0 .. Len(ranges) - 2 :
            (ranges[k + 2].min.is_infinite = FINITE
                /\ sel.value = ranges[k + 2].min.value) =>
                /\ sel.strategy = BTGreaterEqualStrategyNumber =>
                    sel.result.rangeset =
                        <<make_irange(k + 1, Len(ranges) - 1, IR_COMPLETE)>>
                /\ sel.strategy = BTLessStrategyNumber =>
                    sel.result.rangeset = <<make_irange(0, k, IR_COMPLETE)>>

\* C4: an equality test whose value lies in the gap between partitions k and
\* k+1 returns an empty rangeset with found_gap = true
C4_EqualityInGap ==
    (sel.called /\ sel.strategy = BTEqualStrategyNumber
        /\ \E k \in 0 .. Len(ranges) - 2 : InGapAfter(k)) =>
        (sel.result.rangeset = NIL /\ sel.result.found_gap = TRUE)

C4_Witness ==
    /\ sel.called /\ sel.strategy = BTEqualStrategyNumber
    /\ Len(ranges) = MaxParts
    /\ InGapAfter(1)
    /\ sel.result.found_gap

(***************************************************************************)
(* Properties of the walker and the rebuilder, checked under Spec          *)
(***************************************************************************)
Walked == wrap.state = "done"

\* the predicate is an equality test of the key against the int4 constant v
IsEqualityTest(v) == expr = Int4Const(v) \/ expr = KeyOp("=", Int4Const(v))

\* C3: a constant equality test whose value falls strictly inside the span of
\* partition k gives exactly {[k,k], LOSSY} and found_gap = false
C3_EqualityInsidePartition ==
    (Walked /\ prel.parttype = "PT_RANGE") =>
        \A v \in Values, k \in 0 .. PrelLastChild(prel) :
            (IsEqualityTest(v)
                /\ prel.ranges[k + 1].min.value < v
                /\ v < prel.ranges[k + 1].max.value) =>
                /\ wrap.node.rangeset = <<make_irange(k, k, IR_LOSSY)>>
                /\ wrap.node.found_gap = FALSE

C3_Witness ==
    /\ Walked /\ prel.parttype = "PT_RANGE" /\ PrelChildrenCount(prel) = MaxParts
    /\ expr = KeyOp("=", Int4Const(3))
    /\ prel.ranges[2].min.value = 2 /\ prel.ranges[2].max.value = 4
    /\ wrap.node.rangeset = <<make_irange(1, 1, IR_LOSSY)>>

\* the predicate is an equality test of the key against a constant that is
\* neither NULL nor a boolean
EqualityConsts ==
    {c \in ConstLeaves : ~c.constisnull /\ c.consttype # "bool"}

\* idx is the unsigned 32-bit value of the signed hash h, modulo n
IsHashIndex(idx, h, n) ==
    /\ 0 <= idx /\ idx < n
    /\ IF h >= 0 THEN (h - idx) % n = 0
       ELSE (((h - idx) % n) + Pow32Mod(n)) % n = 0

\* C5: under a HASH scheme of n partitions a constant equality test gives
\* exactly one singleton LOSSY range [idx, idx], idx = hash(value) mod n
C5_HashEqualitySingleton ==
    (Walked /\ prel.parttype = "PT_HASH") =>
        \A c \in EqualityConsts :
            (expr = c \/ expr = KeyOp("=", c)) =>
                \E idx \in 0 .. PrelLastChild(prel) :
                    /\ wrap.node.rangeset = <<make_irange(idx, idx, IR_LOSSY)>>
                    /\ IsHashIndex(idx, hash_proc(c.constvalue), PrelChildrenCount(prel))

C5_Witness ==
    /\ Walked /\ prel.parttype = "PT_HASH" /\ PrelChildrenCount(prel) = MaxParts
    /\ expr = KeyOp("=", Int4Const(3))
    /\ hash_proc(3) < 0
    /\ Len(wrap.node.rangeset) = 1

\* C6: wrapper_make_expression returns Exclude (NULL, alwaysTrue = false)
\* for an index absent from the node's rangeset and NoFilter (NULL,
\* alwaysTrue = true) for an index its rangeset tags COMPLETE
C6_ExcludeAndNoFilter ==
    (Walked /\ rebuilt.called) =>
        LET covered == irange_list_indexes(wrap.node.rangeset)
            lossy   == irange_list_lossy(wrap.node.rangeset)
        IN  /\ rebuilt.index \notin covered =>
                (rebuilt.result.node = NULL /\ rebuilt.result.alwaysTrue = FALSE)
            /\ rebuilt.index \in covered \ lossy =>
                (rebuilt.result.node = NULL /\ rebuilt.result.alwaysTrue = TRUE)

C6_Witness ==
    /\ Walked /\ rebuilt.called
    /\ IsA(expr, "BoolExpr") /\ expr.boolop = "OR_EXPR"
    /\ wrap.node.rangeset = <<make_irange(1, PrelLastChild(prel), IR_COMPLETE)>>
    /\ rebuilt.index = 1
    /\ rebuilt.result.alwaysTrue

\* C7: for an index tagged LOSSY in the rangeset of a single comparison
\* leaf, wrapper_make_expression returns a structural copy equal to the
\* leaf's original expression, and the original is left unchanged
C7_LossyLeafCopied ==
    (Walked /\ rebuilt.called /\ IsA(expr, "OpExpr")
        /\ rebuilt.index \in irange_list_lossy(wrap.node.rangeset)) =>
        /\ rebuilt.result.node # NULL
        /\ equal(rebuilt.result.node, expr)
        /\ rebuilt.result.node.alloc = "copy"
        /\ rebuilt.result.alwaysTrue = FALSE
        /\ wrap.node.orig = expr
        /\ expr.alloc = "parse"

C7_Witness ==
    /\ Walked /\ rebuilt.called
    /\ expr = KeyOp("<", Int4Const(3))
    /\ rebuilt.index \in irange_list_lossy(wrap.node.rangeset)
    /\ equal(rebuilt.result.node, expr)

\* C8: a boolean-true constant predicate yields the full span [0, n-1]
\* tagged COMPLETE with paramsel = 1
C8_TrueConstFullComplete ==
    (Walked /\ expr = BoolConst(TRUE)) =>
        /\ wrap.node.rangeset = <<make_irange(0, PrelLastChild(prel), IR_COMPLETE)>>
        /\ wrap.node.paramsel = Rat(1, 1)

\* the predicate is the constant c alone or the comparison `key opno c`
IsConstTest(c, opno) == IF opno = "" THEN expr = c ELSE expr = KeyOp(opno, c)

NullOrFalse == {NullConst, BoolConst(FALSE), makeConst("bool", InvalidOid, 0, TRUE)}

\* C9 as stated: a constant that is NULL or boolean-false yields an empty
\* rangeset and paramsel = 0, whatever the scheme and the comparison
\* operator it is paired with
C9_NullOrFalseEmpty ==
    Walked =>
        \A c \in NullOrFalse, opno \in Operators \cup {""} :
            IsConstTest(c, opno) =>
                (wrap.node.rangeset = NIL /\ wrap.node.paramsel = Rat(0, 1))

\* C9 amended: a constant that is NULL or boolean-false yields an empty
\* rangeset and paramsel = 0 under both schemes, alone or paired with an
\* operator of the key's btree family (<, <=, =, >=, >); paired with an
\* operator that has no btree strategy (<>) it yields the full span tagged
\* LOSSY with paramsel = 1
C9_NullOrFalseEmptyForBtreeOperators ==
    Walked =>
        \A c \in NullOrFalse, opno \in Operators \cup {""} :
            IsConstTest(c, opno) =>
                IF opno = "" \/ get_op_opfamily_strategy(opno) # 0
                THEN wrap.node.rangeset = NIL /\ wrap.node.paramsel = Rat(0, 1)
                ELSE /\ wrap.node.rangeset =
                            <<make_irange(0, PrelLastChild(prel), IR_LOSSY)>>
                     /\ wrap.node.paramsel = Rat(1, 1)

C9_Witness ==
    /\ Walked /\ prel.parttype = "PT_HASH" /\ PrelChildrenCount(prel) = MaxParts
    /\ expr = KeyOp(">", NullConst)
    /\ wrap.node.rangeset = NIL

\* every WrapperNode of the tree rooted at w
RECURSIVE AllWrappers(_)
AllWrappers(w) == {w} \cup UNION {AllWrappers(w.args[k]) : k \in DOMAIN w.args}

InUnitInterval(x) == RatLe(Rat(0, 1), x) /\ RatLe(x, Rat(1, 1))

\* C10: the paramsel of every WrapperNode produced by walk_expr_tree lies
\* in [0, 1]
C10_ParamselInUnitInterval ==
    Walked => \A w \in AllWrappers(wrap.node) : InUnitInterval(w.paramsel)

\* a rangeset over n partitions is sorted by lower bound, its ranges do not
\* overlap, neighbouring ranges of one tag are merged, and every range lies
\* within 0 .. n-1
IsCanonical(rangeset, n) ==
    /\ \A j \in DOMAIN rangeset :
            /\ 0 <= rangeset[j].lower
            /\ rangeset[j].lower <= rangeset[j].upper
            /\ rangeset[j].upper <= n - 1
    /\ \A j \in DOMAIN rangeset :
            j + 1 \in DOMAIN rangeset =>
                /\ rangeset[j].upper < rangeset[j + 1].lower
                /\ rangeset[j].upper + 1 = rangeset[j + 1].lower =>
                        rangeset[j].lossy # rangeset[j + 1].lossy

\* C11: every rangeset stored in a WrapperNode by walk_expr_tree (at the
\* leaves and at the AND/OR/array nodes) is sorted by lower bound,
\* non-overlapping, has adjacent same-tag ranges merged, and each of its
\* ranges satisfies 0 <= lower <= upper <= n-1
C11_RangesetsCanonical ==
    Walked =>
        \A w \in AllWrappers(wrap.node) :
            IsCanonical(w.rangeset, PrelChildrenCount(prel))

C11_Witness ==
    /\ Walked /\ prel.parttype = "PT_RANGE" /\ PrelChildrenCount(prel) = MaxParts
    /\ expr = makeBoolExpr("OR_EXPR", <<KeyOp("=", Int4Const(1)), KeyOp(">=", Int4Const(2))>>)
    /\ wrap.node.args[2].rangeset =
            <<make_irange(1, 1, IR_LOSSY), make_irange(2, MaxParts - 1, IR_COMPLETE)>>
    /\ Len(wrap.node.rangeset) = 2

\* index i is covered by the rangeset / covered by a range tagged COMPLETE
HasIndex(rangeset, i) ==
    \E j \in DOMAIN rangeset : rangeset[j].lower <= i /\ i <= rangeset[j].upper

HasComplete(rangeset, i) ==
    \E j \in DOMAIN rangeset :
        rangeset[j].lower <= i /\ i <= rangeset[j].upper /\ rangeset[j].lossy = IR_COMPLETE

\* the WrapperNodes of the walked tree that stand for a BoolExpr of 'boolop'
BoolWrappers(boolop) ==
    {w \in AllWrappers(wrap.node) :
        w.orig # NULL /\ IsA(w.orig, "BoolExpr") /\ w.orig.boolop = boolop}

RECURSIVE NumProduct(_, _)
NumProduct(args, k) ==
    IF k > Len(args) THEN 1 ELSE args[k].paramsel[1] * NumProduct(args, k + 1)

RECURSIVE DenProduct(_, _)
DenProduct(args, k) ==
    IF k > Len(args) THEN 1 ELSE args[k].paramsel[2] * DenProduct(args, k + 1)

\* RANGE scheme of three partitions [0,2), [2,4), [4,6)
ThreeEvenPartitions ==
    RangePrel(<<[min |-> MakeBound(0), max |-> MakeBound(2)],
                [min |-> MakeBound(2), max |-> MakeBound(4)],
                [min |-> MakeBound(4), max |-> MakeBound(6)]>>)

DisjointAnd ==
    makeBoolExpr("AND_EXPR", <<KeyOp("=", Int4Const(5)), KeyOp("<", Int4Const(1))>>)

\* C12: the rangeset of an AND node is the intersection of its children's
\* rangesets seeded with the full COMPLETE span (an index is included iff
\* every child includes it and is COMPLETE iff every child tags it COMPLETE),
\* its paramsel is the product of the children's paramsel; `key = 5 AND
\* key < 1` over [0,2), [2,4), [4,6) gives an empty rangeset
C12_AndIntersects ==
    Walked =>
        /\ \A w \in BoolWrappers("AND_EXPR") :
            /\ \A i \in 0 .. PrelLastChild(prel) :
                /\ HasIndex(w.rangeset, i) <=>
                        \A k \in DOMAIN w.args : HasIndex(w.args[k].rangeset, i)
                /\ HasComplete(w.rangeset, i) <=>
                        \A k \in DOMAIN w.args : HasComplete(w.args[k].rangeset, i)
            /\ \A j \in DOMAIN w.rangeset :
                    0 <= w.rangeset[j].lower /\ w.rangeset[j].upper <= PrelLastChild(prel)
            /\ w.paramsel = Rat(NumProduct(w.args, 1), DenProduct(w.args, 1))
        /\ (prel = ThreeEvenPartitions /\ expr = DisjointAnd) => wrap.node.rangeset = NIL

C12_Witness ==
    /\ Walked /\ prel = ThreeEvenPartitions /\ expr = DisjointAnd
    /\ wrap.node.args[1].rangeset = <<make_irange(2, 2, IR_LOSSY)>>
    /\ wrap.node.args[2].rangeset = <<make_irange(0, 0, IR_LOSSY)>>
    /\ wrap.node.rangeset = NIL
    /\ wrap.node.paramsel = Rat(1, 9)

\* number of partition indexes a rangeset covers
IndexCount(rangeset) ==
    Cardinality({i \in 0 .. PrelLastChild(prel) : HasIndex(rangeset, i)})

\* PRODUCT_k (1 - sel_k * len_k / totalLen) as the fraction OrNum / OrDen,
\* sel_k = n_k / d_k: each factor is (d_k * totalLen - n_k * len_k) / (d_k * totalLen)
RECURSIVE OrNum(_, _, _)
OrNum(args, k, totalLen) ==
    IF k > Len(args) THEN 1
    ELSE (args[k].paramsel[2] * totalLen
            - args[k].paramsel[1] * IndexCount(args[k].rangeset))
         * OrNum(args, k + 1, totalLen)

RECURSIVE OrDen(_, _, _)
OrDen(args, k, totalLen) ==
    IF k > Len(args) THEN 1
    ELSE (args[k].paramsel[2] * totalLen) * OrDen(args, k + 1, totalLen)

\* C13: the rangeset of an OR node is the union of its children's rangesets
\* (an index is included iff some child includes it and is COMPLETE iff some
\* child tags it COMPLETE) and its paramsel is
\* 1 - PRODUCT_k (1 - childSel_k * childLen_k / totalLen), the lengths being
\* the index counts of child k's rangeset and of the union
C13_OrUnites ==
    Walked =>
        \A w \in BoolWrappers("OR_EXPR") :
            /\ \A i \in 0 .. PrelLastChild(prel) :
                /\ HasIndex(w.rangeset, i) <=>
                        \E k \in DOMAIN w.args : HasIndex(w.args[k].rangeset, i)
                /\ HasComplete(w.rangeset, i) <=>
                        \E k \in DOMAIN w.args : HasComplete(w.args[k].rangeset, i)
            /\ \A j \in DOMAIN w.rangeset :
                    0 <= w.rangeset[j].lower /\ w.rangeset[j].upper <= PrelLastChild(prel)
            /\ LET totalLen == IndexCount(w.rangeset)
                   num      == OrNum(w.args, 1, totalLen)
                   den      == OrDen(w.args, 1, totalLen)
               IN  w.paramsel = Rat(den - num, den)

C13_Witness ==
    /\ Walked /\ prel = ThreeEvenPartitions
    /\ expr = makeBoolExpr("OR_EXPR", <<KeyOp("=", Int4Const(1)), KeyOp(">=", Int4Const(2))>>)
    /\ wrap.node.rangeset = <<make_irange(0, 0, IR_LOSSY), make_irange(1, 2, IR_COMPLETE)>>
    /\ wrap.node.paramsel = Rat(25, 81)

\* the row whose key is c is stored in partition k: c lies in [min_k, max_k)
\* under RANGE, k is hash(c) mod n under HASH
LandsIn(c, k) ==
    IF prel.parttype = "PT_RANGE"
    THEN prel.ranges[k + 1].min.value <= c /\ c < prel.ranges[k + 1].max.value
    ELSE IsHashIndex(k, hash_proc(c), PrelChildrenCount(prel))

EqualityOr(c1, c2) ==
    makeBoolExpr("OR_EXPR", <<KeyOp("=", Int4Const(c1)), KeyOp("=", Int4Const(c2))>>)

\* the predicate is `key = c1 OR key = c2` for two different int4 constants
IsEqualityOr ==
    /\ IsA(expr, "BoolExpr") /\ expr.boolop = "OR_EXPR" /\ Len(expr.args) = 2
    /\ \A k \in 1 .. 2 : IsA(expr.args[k], "OpExpr") /\ Len(expr.args[k].args) = 2
    /\ expr = EqualityOr(expr.args[1].args[2].constvalue, expr.args[2].args[2].constvalue)
    /\ expr.args[1].args[2].constvalue # expr.args[2].args[2].constvalue

\* C14 as stated: for `key = c1 OR key = c2`, c1 # c2 landing in distinct
\* partitions, the root rangeset holds exactly two singleton LOSSY ranges
C14_TwoSingletonRanges ==
    (Walked /\ IsEqualityOr) =>
        LET c1 == expr.args[1].args[2].constvalue
            c2 == expr.args[2].args[2].constvalue
        IN  \A k1, k2 \in 0 .. PrelLastChild(prel) :
                (LandsIn(c1, k1) /\ LandsIn(c2, k2) /\ k1 # k2) =>
                    /\ Len(wrap.node.rangeset) = 2
                    /\ \A j \in DOMAIN wrap.node.rangeset :
                        /\ wrap.node.rangeset[j].lower = wrap.node.rangeset[j].upper
                        /\ wrap.node.rangeset[j].lossy = IR_LOSSY

\* C14 amended: for `key = c1 OR key = c2`, c1 # c2 landing in distinct
\* partitions k1 < k2, the root rangeset covers exactly k1 and k2, both
\* LOSSY: two singleton ranges when the partitions are not neighbours, the
\* single merged range [k1, k2] when k2 = k1 + 1
C14_TwoLossyIndexes ==
    (Walked /\ IsEqualityOr) =>
        LET c1 == expr.args[1].args[2].constvalue
            c2 == expr.args[2].args[2].constvalue
        IN  \A k1, k2 \in 0 .. PrelLastChild(prel) :
                (LandsIn(c1, k1) /\ LandsIn(c2, k2)) =>
                    IF k1 = k2 THEN TRUE
                    ELSE LET lo == IF k1 < k2 THEN k1 ELSE k2
                             hi == IF k1 < k2 THEN k2 ELSE k1
                         IN  wrap.node.rangeset =
                                IF hi = lo + 1 THEN <<make_irange(lo, hi, IR_LOSSY)>>
                                ELSE <<make_irange(lo, lo, IR_LOSSY),
                                       make_irange(hi, hi, IR_LOSSY)>>

C14_Witness ==
    /\ Walked /\ prel = HashPrel(4) /\ expr = EqualityOr(1, 3)
    /\ LandsIn(1, 0) /\ LandsIn(3, 2)
    /\ wrap.node.rangeset = <<make_irange(0, 0, IR_LOSSY), make_irange(2, 2, IR_LOSSY)>>

\* the predicate is `key opno ANY/ALL (array)` with a non-NULL constant array
IsConstArrayTest ==
    /\ IsA(expr, "ScalarArrayOpExpr")
    /\ expr.args[1] = prel_expr
    /\ IsA(expr.args[2], "Const") /\ ~expr.args[2].constisnull

\* the WrapperNode of the test `key opno element` for element k of the array
ElementTest(k) ==
    walk_expr_tree(KeyOp(expr.opno,
                         makeConst(expr.args[2].elemtype, InvalidOid,
                                   expr.args[2].elems[k].value,
                                   expr.args[2].elems[k].isnull)),
                   [prel |-> prel, prel_expr |-> prel_expr, econtext |-> econtext])

InScenario ==
    makeScalarArrayOpExpr("=", TRUE,
        <<prel_expr, makeArrayConst("int4", <<[value |-> 5, isnull |-> FALSE],
                                              [value |-> 3, isnull |-> FALSE],
                                              [value |-> 1, isnull |-> FALSE]>>, FALSE)>>)

\* C15: for `key op ANY/ALL (constant non-NULL array)` the rangeset is the
\* union (ANY) or the intersection seeded with the full span (ALL) of the
\* per-element rangesets, duplicates merged, and paramsel is the maximum of
\* the element selectivities, 0 for an empty array; HASH with 4 partitions
\* and elements hashing to 0, 2, 0 gives {[0,0], LOSSY}, {[2,2], LOSSY}
C15_ArrayCombinesElements ==
    (Walked /\ IsConstArrayTest) =>
        LET elems == DOMAIN expr.args[2].elems
            tests == [k \in elems |-> ElementTest(k)]
            root  == wrap.node
        IN  /\ \A i \in 0 .. PrelLastChild(prel) :
                IF expr.useOr
                THEN /\ HasIndex(root.rangeset, i) <=>
                            \E k \in elems : HasIndex(tests[k].rangeset, i)
                     /\ HasComplete(root.rangeset, i) <=>
                            \E k \in elems : HasComplete(tests[k].rangeset, i)
                ELSE /\ HasIndex(root.rangeset, i) <=>
                            \A k \in elems : HasIndex(tests[k].rangeset, i)
                     /\ HasComplete(root.rangeset, i) <=>
                            \A k \in elems : HasComplete(tests[k].rangeset, i)
            /\ IsCanonical(root.rangeset, PrelChildrenCount(prel))
            /\ IF elems = {} THEN root.paramsel = Rat(0, 1)
               ELSE /\ \E k \in elems : root.paramsel = tests[k].paramsel
                    /\ \A k \in elems : RatLe(tests[k].paramsel, root.paramsel)
            /\ (prel = HashPrel(4) /\ expr = InScenario) =>
                    root.rangeset = <<make_irange(0, 0, IR_LOSSY), make_irange(2, 2, IR_LOSSY)>>

C15_Witness ==
    /\ Walked /\ prel = HashPrel(4) /\ expr = InScenario
    /\ LandsIn(5, 0) /\ LandsIn(3, 2) /\ LandsIn(1, 0)
    /\ wrap.node.rangeset = <<make_irange(0, 0, IR_LOSSY), make_irange(2, 2, IR_LOSSY)>>
    /\ wrap.node.paramsel = Rat(1, 4)

\* the predicate is `key opno $1` and no runtime-evaluation context is given
IsUnresolvedParamTest(opno) ==
    expr = KeyOp(opno, makeParam("int4", InvalidOid)) /\ econtext = NoEcontext

Inequalities == {"<", "<=", ">=", ">"}

\* C16 as stated: for `key op $1` without a runtime-evaluation context the
\* rangeset is the full span tagged LOSSY and paramsel is 1/n for equality on
\* a HASH scheme, the default inequality selectivity for an inequality on a
\* RANGE scheme, and 1 for every other scheme/operator combination
C16_ParamDefaultSelectivity ==
    Walked =>
        \A opno \in Operators :
            IsUnresolvedParamTest(opno) =>
                /\ wrap.node.rangeset = <<make_irange(0, PrelLastChild(prel), IR_LOSSY)>>
                /\ wrap.node.paramsel =
                        IF opno = "=" /\ prel.parttype = "PT_HASH"
                        THEN Rat(1, PrelChildrenCount(prel))
                        ELSE IF opno \in Inequalities /\ prel.parttype = "PT_RANGE"
                        THEN DEFAULT_INEQ_SEL
                        ELSE Rat(1, 1)

\* C16 amended: for `key op $1` without a runtime-evaluation context the
\* rangeset is the full span tagged LOSSY and paramsel is 1/n for equality on
\* either scheme, the default inequality selectivity for <, <=, >=, > on a
\* RANGE scheme, and 1 for every other scheme/operator combination
C16_ParamSelectivityEqualityAnyScheme ==
    Walked =>
        \A opno \in Operators :
            IsUnresolvedParamTest(opno) =>
                /\ wrap.node.rangeset = <<make_irange(0, PrelLastChild(prel), IR_LOSSY)>>
                /\ wrap.node.paramsel =
                        IF opno = "="
                        THEN Rat(1, PrelChildrenCount(prel))
                        ELSE IF opno \in Inequalities /\ prel.parttype = "PT_RANGE"
                        THEN DEFAULT_INEQ_SEL
                        ELSE Rat(1, 1)

C16_Witness ==
    /\ Walked /\ prel.parttype = "PT_RANGE" /\ PrelChildrenCount(prel) = 2
    /\ IsUnresolvedParamTest("=")
    /\ wrap.node.rangeset = <<make_irange(0, 1, IR_LOSSY)>>
    /\ wrap.node.paramsel = Rat(1, 2)

\* C18: every WrapperNode returned by walk_expr_tree, for every node kind
\* including a bare constant, stores a non-null reference to its original
\* expression, so that wrapper_make_expression can be applied to it for any
\* partition index tagged LOSSY
C18_EveryNodeKeepsOrig ==
    Walked =>
        /\ \A w \in AllWrappers(wrap.node) : w.orig # NULL
        /\ (rebuilt.called /\ rebuilt.index \in irange_list_lossy(wrap.node.rangeset)) =>
                (~rebuilt.result.crash /\ rebuilt.result.node # NULL)

\* the constant is of another type than the key and no cast to the key type
\* exists (booleans, which handle_const answers before any cast, are left out)
Uncoercible(c) ==
    /\ c.consttype # prel.ev_type
    /\ c.consttype # "bool"
    /\ ~perform_type_cast(c.constvalue, c.consttype, prel.ev_type).success

WalkReturned == wrap.state # "none"

WalkAborted == wrap.state = "error"

\* C19 as stated: whenever a constant's type differs from the partitioning
\* column's type and it cannot be coerced to that type, the walk aborts with
\* a fatal error and no rangeset is produced, under both schemes
C19_UncoercibleAborts ==
    WalkReturned =>
        \A c \in {k \in ConstLeaves : Uncoercible(k)}, opno \in Operators \cup {""} :
            IsConstTest(c, opno) => WalkAborted

\* C19 amended: whenever a non-NULL, non-boolean constant's type differs
\* from the partitioning column's type and cannot be coerced to it, an
\* equality test on it (the constant alone or `key = c`) aborts the walk with
\* a fatal error and no rangeset, under both schemes; paired with another
\* operator, a HASH scheme (and a RANGE scheme whose key collation differs
\* from the constant's) attempts no coercion and gives the full span LOSSY
C19_UncoercibleEqualityAborts ==
    WalkReturned =>
        \A c \in {k \in ConstLeaves : Uncoercible(k)}, opno \in Operators \cup {""} :
            (~c.constisnull /\ IsConstTest(c, opno)) =>
                IF opno \in {"", "="}
                THEN WalkAborted
                ELSE (prel.parttype = "PT_HASH" \/ c.constcollid # prel.ev_collid) =>
                        /\ Walked
                        /\ wrap.node.rangeset =
                                <<make_irange(0, PrelLastChild(prel), IR_LOSSY)>>

C19_Witness ==
    /\ WalkAborted /\ prel.parttype = "PT_HASH" /\ PrelChildrenCount(prel) = MaxParts
    /\ expr = KeyOp("=", makeConst("text", DEFAULT_COLLATION_OID, 1, FALSE))
    /\ Uncoercible(expr.args[2])
    /\ wrap.elog = "Cannot select partition: unable to perform type cast"

IsNot(e) == IsA(e, "BoolExpr") /\ e.boolop = "NOT_EXPR"

\* C20: a NOT node is opaque: whatever the rangeset of its argument, its
\* rangeset is the full span tagged LOSSY and its paramsel is 1, and
\* rebuilding it for any partition returns a copy of the whole NOT expression
C20_NotIsOpaque ==
    Walked =>
        /\ \A w \in BoolWrappers("NOT_EXPR") :
            /\ w.rangeset = <<make_irange(0, PrelLastChild(prel), IR_LOSSY)>>
            /\ w.paramsel = Rat(1, 1)
        /\ (IsNot(expr) /\ rebuilt.called) =>
            /\ rebuilt.result.node # NULL
            /\ IsNot(rebuilt.result.node)
            /\ equal(rebuilt.result.node, expr)
            /\ rebuilt.result.node.alloc = "copy"
            /\ rebuilt.result.alwaysTrue = FALSE
            /\ ~rebuilt.result.crash

C20_Witness ==
    /\ Walked /\ PrelChildrenCount(prel) = MaxParts
    /\ expr = makeBoolExpr("NOT_EXPR", <<KeyOp("=", NullConst)>>)
    /\ wrap.node.args[1].rangeset = NIL
    /\ rebuilt.called /\ rebuilt.index = MaxParts - 1
    /\ equal(rebuilt.result.node, expr)

(***************************************************************************)
(* Properties of the rangeset algebra, checked under SpecAlgebra           *)
(***************************************************************************)
\* C17: over rangesets on the same partition count, union and intersection
\* are commutative and associative, intersect(A, fullCOMPLETE) = A and
\* union(A, fullCOMPLETE) = fullCOMPLETE
C17_AlgebraLaws ==
    algebra.called =>
        /\ algebra.union_ab = algebra.union_ba
        /\ algebra.union_ab_c = algebra.union_a_bc
        /\ algebra.intersection_ab = algebra.intersection_ba
        /\ algebra.intersection_ab_c = algebra.intersection_a_bc
        /\ algebra.intersection_a_full = algebra.a
        /\ algebra.union_a_full = <<make_irange(0, algebra.n - 1, IR_COMPLETE)>>

C17_Witness ==
    /\ algebra.called /\ algebra.n = MaxParts
    /\ algebra.a = <<make_irange(0, 1, IR_LOSSY)>>
    /\ algebra.b = <<make_irange(1, 1, IR_COMPLETE), make_irange(2, 2, IR_LOSSY)>>
    /\ algebra.c = <<make_irange(0, 0, IR_COMPLETE)>>
    /\ algebra.union_ab = <<make_irange(0, 0, IR_LOSSY), make_irange(1, 1, IR_COMPLETE),
                            make_irange(2, 2, IR_LOSSY)>>
    /\ algebra.intersection_ab = <<make_irange(1, 1, IR_LOSSY)>>
    /\ algebra.union_ab_c = <<make_irange(0, 1, IR_COMPLETE), make_irange(2, 2, IR_LOSSY)>>

(***************************************************************************)
(* Further properties of select_range_partitions(), checked under          *)
(* SpecRange                                                               *)
(***************************************************************************)
\* every key of the span [min, max) of partition k (0-based) satisfies the
\* comparison of the call
AllKeysSatisfy(k) ==
    \A key2 \in KeyDom :
        InSpan(key2, ranges[k + 1]) => KeySatisfies(key2, sel.strategy, sel.value)

\* the call was answered by the boundary short-circuits with the full span
ShortCircuitFull ==
    /\ sel.called /\ Len(ranges) > 0
    /\ CornerCase(cmp_bounds(MakeBound(sel.value), ranges[1].min),
                  cmp_bounds(MakeBound(sel.value), ranges[Len(ranges)].max),
                  sel.strategy) = "full"

\* C21: every partition index that select_range_partitions tags COMPLETE has
\* all keys of its span [min_k, max_k) satisfying `key op value`; the
\* boundary short-circuits return the full COMPLETE span only when every key
\* of every partition satisfies the comparison
C21_CompleteSpansSatisfy ==
    sel.called =>
        /\ \A k \in 0 .. Len(ranges) - 1 :
                HasComplete(sel.result.rangeset, k) => AllKeysSatisfy(k)
        /\ ShortCircuitFull =>
                /\ sel.result.rangeset =
                        <<make_irange(0, Len(ranges) - 1, IR_COMPLETE)>>
                /\ \A k \in 0 .. Len(ranges) - 1 : AllKeysSatisfy(k)

C21_Witness ==
    /\ ShortCircuitFull /\ Len(ranges) = MaxParts
    /\ sel.strategy = BTGreaterEqualStrategyNumber
    /\ ranges[1].min.is_infinite = FINITE /\ sel.value = ranges[1].min.value
    /\ sel.result.rangeset = <<make_irange(0, MaxParts - 1, IR_COMPLETE)>>

\* floor(log2(n)), n >= 1
RECURSIVE Log2(_)
Log2(n) == IF n <= 1 THEN 0 ELSE 1 + Log2(n \div 2)

\* some partition's span [min, max) holds the value of the call
ValueCovered ==
    \E k \in DOMAIN ranges :
        /\ cmp_bounds(MakeBound(sel.value), ranges[k].min) >= 0
        /\ cmp_bounds(MakeBound(sel.value), ranges[k].max) < 0

\* the loop ended within floor(log2(n)) + 2 probes, fewer than 100, and every
\* pivot was an index of the array
SearchBounded ==
    /\ sel.search.counter <= Log2(Len(ranges)) + 2
    /\ sel.search.counter < 100
    /\ \A j \in DOMAIN sel.search.pivots :
            0 <= sel.search.pivots[j] /\ sel.search.pivots[j] < Len(ranges)

\* C23: on every sorted, non-overlapping ranges array of length n >= 1 the
\* binary-search loop ends after at most floor(log2(n)) + 2 pivot probes
\* (fewer than 100), every pivot i satisfies 0 <= i < n, and the loop ends by
\* a match, not by reporting a gap, when some partition's span covers the
\* value
C23_SearchFindsCoveringPartition ==
    (sel.called /\ sel.search.ran) =>
        /\ SearchBounded
        /\ ValueCovered => (sel.search.found /\ ~sel.result.found_gap)

\* partition k (1-based) would end the search: the value is neither "less"
\* nor "greater" than its span
PivotMatches(k) ==
    /\ ~is_less(cmp_bounds(MakeBound(sel.value), ranges[k].min), sel.strategy)
    /\ ~is_greater(cmp_bounds(MakeBound(sel.value), ranges[k].max), sel.strategy)

\* the value is below the first partition's min, or at or above the last
\* partition's max
OutsideBounds ==
    /\ Len(ranges) > 0
    /\ \/ cmp_bounds(MakeBound(sel.value), ranges[1].min) < 0
       \/ cmp_bounds(MakeBound(sel.value), ranges[Len(ranges)].max) >= 0

\* C28: select_range_partitions resets found_gap to false on entry and sets
\* it to true only when the binary search ends without a partition that
\* covers the value the way the search asks (no pivot could have matched);
\* for an empty ranges array and for values caught by the boundary
\* short-circuits found_gap is false, and whenever found_gap is true the
\* rangeset is empty
C28_FoundGapProtocol ==
    sel.called =>
        /\ Len(ranges) = 0 => ~sel.result.found_gap
        /\ OutsideBounds => (~sel.search.ran /\ ~sel.result.found_gap)
        /\ ~sel.search.ran => ~sel.result.found_gap
        /\ sel.result.found_gap =>
                /\ sel.result.rangeset = NIL
                /\ sel.search.ran /\ ~sel.search.found
                /\ \A k \in DOMAIN ranges : ~PivotMatches(k)
        /\ (sel.search.ran /\ sel.search.found) => ~sel.result.found_gap

C28_Witness ==
    /\ sel.called /\ sel.found_gap /\ Len(ranges) = MaxParts
    /\ OutsideBounds /\ sel.strategy = BTEqualStrategyNumber
    /\ cmp_bounds(MakeBound(sel.value), ranges[Len(ranges)].max) = 0
    /\ sel.result.rangeset = NIL
    /\ ~sel.result.found_gap

(***************************************************************************)
(* Further properties of the walker and the rebuilder, checked under Spec  *)
(***************************************************************************)
\* the operator op' with `c op key` equivalent to `key op' c`
Commutator(opno) ==
    CASE opno = "<"  -> ">"
      [] opno = "<=" -> ">="
      [] opno = ">=" -> "<="
      [] opno = ">"  -> "<"
      [] OTHER       -> opno

\* the predicate is `c opno key` with a constant on the left of the key
IsConstKeyTest ==
    /\ IsA(expr, "OpExpr") /\ Len(expr.args) = 2
    /\ IsA(expr.args[1], "Const") /\ expr.args[2] = prel_expr

\* C22: for a comparison `c op key`, constant on the left and partitioning
\* key on the right, the rangeset computed by handle_opexpr is the rangeset
\* of the commuted comparison `key op' c`
C22_ConstOnLeftCommuted ==
    (Walked /\ IsConstKeyTest) =>
        wrap.node.rangeset =
            walk_expr_tree(KeyOp(Commutator(expr.opno), expr.args[1]),
                           [prel |-> prel, prel_expr |-> prel_expr,
                            econtext |-> econtext]).rangeset

\* index i is covered by a range of the rangeset tagged LOSSY
HasLossy(rangeset, i) == HasIndex(rangeset, i) /\ ~HasComplete(rangeset, i)

\* the call of wrapper_make_expression rebuilt the root, an AND or an OR,
\* for a partition its rangeset tags LOSSY
RebuiltAndOr ==
    /\ Walked /\ rebuilt.called
    /\ wrap.node.orig # NULL /\ wrapper_is_and_or(wrap.node.orig)
    /\ HasLossy(wrap.node.rangeset, rebuilt.index)

ChildAsserts == {"Assert(!childAlwaysTrue)", "Assert(arg || childAlwaysTrue)"}

\* C24: whenever wrapper_make_expression rebuilds an AND or OR node tagged
\* LOSSY at index idx, no child of an AND node is excluded at idx and no
\* child of an OR node is always true (COMPLETE) at idx, in every tree
\* produced by walk_expr_tree
C24_NoImpossibleChild ==
    Walked =>
        /\ \A idx \in 0 .. PrelLastChild(prel) :
            /\ \A w \in BoolWrappers("AND_EXPR") :
                    HasLossy(w.rangeset, idx) =>
                        \A k \in DOMAIN w.args : HasIndex(w.args[k].rangeset, idx)
            /\ \A w \in BoolWrappers("OR_EXPR") :
                    HasLossy(w.rangeset, idx) =>
                        \A k \in DOMAIN w.args : ~HasComplete(w.args[k].rangeset, idx)
        /\ (RebuiltAndOr /\ ~rebuilt.result.crash) =>
                rebuilt.result.assertion \notin ChildAsserts

C24_Witness ==
    /\ RebuiltAndOr /\ prel = ThreeEvenPartitions /\ rebuilt.index = 0
    /\ expr = makeBoolExpr("AND_EXPR", <<KeyOp("=", Int4Const(1)), KeyOp("<", Int4Const(2))>>)
    /\ wrap.node.args[1].rangeset = <<make_irange(0, 0, IR_LOSSY)>>
    /\ wrap.node.args[2].rangeset = <<make_irange(0, 0, IR_COMPLETE)>>
    /\ rebuilt.result.assertion = ""
    /\ equal(rebuilt.result.node, KeyOp("=", Int4Const(1)))

\* the children of the root whose rangeset tags the rebuilt index LOSSY
LossyChildren ==
    {k \in DOMAIN wrap.node.args : HasLossy(wrap.node.args[k].rangeset, rebuilt.index)}

\* what the rebuilt root must be, given its children
RebuiltFromSurvivors ==
    /\ LossyChildren # {}
    /\ rebuilt.result.assertion = ""
    /\ rebuilt.result.node # NULL
    /\ rebuilt.result.alwaysTrue = FALSE
    /\ IF Cardinality(LossyChildren) = 1
       THEN rebuilt.result.node =
                wrapper_make_expression(wrap.node.args[CHOOSE k \in LossyChildren : TRUE],
                                        rebuilt.index).node
       ELSE /\ IsA(rebuilt.result.node, "BoolExpr")
            /\ rebuilt.result.node.alloc = "new"
            /\ rebuilt.result.node.boolop = expr.boolop
            /\ Len(rebuilt.result.node.args) = Cardinality(LossyChildren)
            /\ \A j \in DOMAIN rebuilt.result.node.args :
                    rebuilt.result.node.args[j] # NULL

\* C25: whenever wrapper_make_expression rebuilds an AND or OR node tagged
\* LOSSY at index idx, at least one child yields a residual expression (the
\* list of surviving arguments is never empty); with exactly one survivor
\* that child's expression is returned directly, otherwise a new boolean
\* node with the same operator
C25_SurvivorsRebuilt ==
    RebuiltAndOr =>
        /\ ~rebuilt.result.crash
        /\ RebuiltFromSurvivors

\* the tree is an AND/OR tree over comparisons `key op c`, c a non-NULL
\* constant of the key type
RECURSIVE IsComparisonTree(_)
IsComparisonTree(e) ==
    IF IsA(e, "OpExpr")
    THEN /\ Len(e.args) = 2 /\ match_expr_to_operand(prel_expr, e.args[1])
         /\ IsA(e.args[2], "Const") /\ e.args[2].consttype = "int4"
         /\ ~e.args[2].constisnull
         /\ e.opno \in Operators
    ELSE /\ IsA(e, "BoolExpr") /\ e.boolop \in {"AND_EXPR", "OR_EXPR"}
         /\ \A k \in DOMAIN e.args : IsComparisonTree(e.args[k])

\* the truth value of a comparison tree on the key key2 / 2
RECURSIVE Eval(_, _)
Eval(e, key2) ==
    IF IsA(e, "OpExpr")
    THEN IF e.opno = "<>" THEN key2 # 2 * e.args[2].constvalue
         ELSE KeySatisfies(key2, get_op_opfamily_strategy(e.opno), e.args[2].constvalue)
    ELSE IF e.boolop = "AND_EXPR"
    THEN \A k \in DOMAIN e.args : Eval(e.args[k], key2)
    ELSE \E k \in DOMAIN e.args : Eval(e.args[k], key2)

\* a comparison tree was rebuilt for a partition of a RANGE scheme that the
\* root rangeset tags LOSSY
RebuiltComparisonTree ==
    /\ Walked /\ rebuilt.called /\ prel.parttype = "PT_RANGE"
    /\ IsComparisonTree(expr)
    /\ HasLossy(wrap.node.rangeset, rebuilt.index)

\* C26: for every tree of AND/OR over comparison leaves and every partition
\* index tagged LOSSY in the root rangeset, the expression returned by
\* wrapper_make_expression has the truth value of the original predicate on
\* every key inside the partition's span
C26_RebuiltEquivalent ==
    RebuiltComparisonTree =>
        /\ rebuilt.result.node # NULL
        /\ IsComparisonTree(rebuilt.result.node)
        /\ \A key2 \in KeyDom :
                InSpan(key2, prel.ranges[rebuilt.index + 1]) =>
                    (Eval(rebuilt.result.node, key2) <=> Eval(expr, key2))

\* C27: the OR selectivity computation of handle_boolexpr never divides by
\* zero: whenever the selectivity loop runs over an OR node's arguments, the
\* length of the union rangeset used as divisor is nonzero, also when every
\* argument has an empty rangeset
C27_OrDivisorNonzero ==
    Walked =>
        \A w \in BoolWrappers("OR_EXPR") :
            Len(w.args) >= 1 =>
                /\ irange_list_length(w.rangeset) # 0
                /\ ~IsNaN(w.paramsel)

\* the predicate is `key op $1`
IsParamTest ==
    /\ IsA(expr, "OpExpr") /\ Len(expr.args) = 2
    /\ expr.args[1] = prel_expr /\ IsA(expr.args[2], "Param")

\* the walk of `key op c`, c the constant (value and null flag) that the
\* parameter of the predicate evaluates to in 'econtext'
ResolvedTest ==
    walk_expr_tree(KeyOp(expr.opno,
                         makeConst(expr.args[2].consttype, expr.args[2].constcollid,
                                   econtext.value, econtext.isnull)),
                   [prel |-> prel, prel_expr |-> prel_expr, econtext |-> NoEcontext])

\* C29: with a runtime-evaluation context, `key op $param` yields the
\* rangeset and paramsel of `key op c`, c being the constant (value and null
\* flag) the parameter evaluates to; without the context it yields the full
\* span tagged LOSSY
C29_ParamResolvedAsConst ==
    (WalkReturned /\ IsParamTest) =>
        IF econtext.available
        THEN IF ResolvedTest.elog # "" THEN WalkAborted /\ wrap.elog = ResolvedTest.elog
             ELSE /\ Walked
                  /\ wrap.node.rangeset = ResolvedTest.rangeset
                  /\ wrap.node.paramsel = ResolvedTest.paramsel
                  /\ wrap.node.orig = expr
        ELSE /\ Walked
             /\ wrap.node.rangeset = <<make_irange(0, PrelLastChild(prel), IR_LOSSY)>>

C29_Witness ==
    /\ Walked /\ IsParamTest /\ prel = ThreeEvenPartitions
    /\ econtext = [available |-> TRUE, value |-> 3, isnull |-> FALSE]
    /\ expr.opno = ">="
    /\ wrap.node.rangeset =
            <<make_irange(1, 1, IR_LOSSY), make_irange(2, 2, IR_COMPLETE)>>
    /\ wrap.node.paramsel = DEFAULT_INEQ_SEL

(***************************************************************************)
(* Properties of the getters of the cached Oids, checked under SpecConfig  *)
(***************************************************************************)
\* C30: get_pathman_config_params_relid(invalid_is_ok = false) raises an
\* error whenever the cached PATHMAN_CONFIG_PARAMS Oid is invalid, whatever
\* the cached PATHMAN_CONFIG Oid, and otherwise returns the cached
\* PATHMAN_CONFIG_PARAMS Oid; neither cached Oid is changed
C30_ParamsRelidChecked ==
    (relid.called /\ relid.function = "get_pathman_config_params_relid"
        /\ ~relid.invalid_is_ok) =>
        /\ IF ~OidIsValid(pathman_config_params_relid)
           THEN relid.result.elog # ""
           ELSE relid.result.elog = "" /\ relid.result.oid = pathman_config_params_relid
        /\ relid.before = <<pathman_config_relid, pathman_config_params_relid>>

====
